---- MODULE Spec2Model ----
(***************************************************************************)
(* A model of the image vectorizer of knowledge/engine/image_vectorizer.py *)
(* (PNG and JPEG container decoders, connected-component labeler, Moore    *)
(* contour tracer, Douglas-Peucker simplifier, ImageVectorizer and its     *)
(* command-line entry cli_vectorize).                                      *)
(*                                                                         *)
(* The module holds several specifications over one set of variables; a    *)
(* specification leaves the variables of the other parts at their idle     *)
(* values.                                                                 *)
(*   SpecSimplify : PathSimplifier.simplify on bounded point lists         *)
(*   SpecVectorize: one ImageVectorizer: load, vectorize,                  *)
(*                  generate_mcp_sequence on bounded binary grids          *)
(*   SpecCli      : one call of cli_vectorize                              *)
(*   SpecPng      : PNGDecoder.decode_bytes on bounded files               *)
(*   SpecJpeg     : JPEGDecoder.decode_bytes on bounded files              *)
(*   SpecUnfilter : PNGDecoder._unfilter_row on filtered scanlines         *)
(*   SpecSquare   : one ImageVectorizer run on the image of a black square *)
(*   SpecBatch    : generate_mcp_sequence on bounded lists of lines        *)
(***************************************************************************)
EXTENDS Integers, Sequences, FiniteSets, TLC

VARIABLES
    dp_points,   \* simplify: the argument `points`
    dp_epsilon,  \* simplify: the argument `epsilon`, a fraction <<num, den>>
    dp_once,     \* simplify(points, epsilon), once computed
    dp_twice,    \* simplify(simplify(points, epsilon), epsilon), once computed
    dp_pc        \* "input", "once" (dp_once computed), "twice" (dp_twice computed)

dpVars == <<dp_points, dp_epsilon, dp_once, dp_twice, dp_pc>>

\* One ImageVectorizer object (lines 1393-1411) and what its methods last did.
VARIABLES
    binary_image,          \* self.binary_image: <<>> for None, else <<image>>
    mode,                  \* self.mode
    threshold,             \* self.threshold
    edge_threshold,        \* self.edge_threshold
    min_component_area,    \* self.min_component_area
    min_contour_length,    \* self.min_contour_length
    simplify_epsilon,      \* self.simplify_epsilon, a fraction <<num, den>>
    output_scale,          \* self.output_scale, a fraction <<num, den>>
    output_offset,         \* self.output_offset, a point
    contours,              \* self.contours, each contour the list of its points
    simplified_contours,   \* self.simplified_contours
    lines,                 \* self.lines
    labeler,               \* the ConnectedComponentLabeler of the last vectorize()
    calls,                 \* the methods called so far that returned or raised
    raised,                \* the exception the last method call raised, or "none"
    mcp_result             \* what generate_mcp_sequence last returned

configVars == <<mode, threshold, edge_threshold, min_component_area,
                min_contour_length, simplify_epsilon>>
outputVars == <<output_scale, output_offset>>
resultVars == <<contours, simplified_contours, lines, labeler>>
vecVars == <<binary_image, configVars, outputVars, resultVars, calls, raised,
             mcp_result>>

\* What load_image did, and one call of cli_vectorize with its arguments.
VARIABLES
    gray_image,     \* self.gray_image: <<>> for None, else <<image>>
    decoded_by,     \* the decoder load_image handed the file to: "none", "native", "PIL"
    printed,        \* the message of the exception load_image caught and printed
    file,           \* the file at image_path: [ext, ok, gray]
    pil_installed,  \* whether `from PIL import Image` succeeds
    options,        \* json.loads(options_json), every key given
    bg,             \* json.loads(bg_json)
    cli_pc,         \* where cli_vectorize stands
    cli_result      \* the object cli_vectorize returns as JSON

loadVars == <<gray_image, decoded_by, printed>>
cliVars == <<file, pil_installed, options, bg, cli_pc, cli_result>>

\* One PNGDecoder (lines 47-56) inside decode_bytes(data).
VARIABLES
    png_data,     \* the argument `data`, a sequence of bytes
    png_defect,   \* what was done to the well-formed file data was made from
    png_pos,      \* decode_bytes: pos
    png_idat,     \* decode_bytes: idat_data
    png_header,   \* self.width .. self.interlace
    png_palette,  \* self.palette
    png_pixels,   \* self.pixels
    png_pc,       \* "start", "chunks", "image_data", "returned", "raised"
    png_raised    \* the exception decode_bytes raised, or "none"

pngVars == <<png_data, png_defect, png_pos, png_idat, png_header, png_palette,
             png_pixels, png_pc, png_raised>>

\* One JPEGDecoder (lines 290-299) inside decode_bytes(data).
VARIABLES
    jpg_data,          \* the argument `data`, a sequence of bytes
    jpg_file,          \* how data was made: [sof, has_scan, sos_ncomp, diffs, tail, cut]
    jpg_pos,           \* decode_bytes: pos
    jpg_width,         \* self.width
    jpg_height,        \* self.height
    jpg_components,    \* self.components
    jpg_quant_tables,  \* self.quant_tables
    jpg_huffman_dc,    \* self.huffman_dc
    jpg_huffman_ac,    \* self.huffman_ac
    jpg_pixels,        \* self.pixels
    jpg_scan,          \* the locals of _decode_scan and the bit reader
    jpg_pc,            \* "start", "markers", "scan", "returned", "raised"
    jpg_raised,        \* the exception decode_bytes raised, or "none"
    jpg_failed,        \* the MCU in which entropy decoding first failed, and how
    jpg_written        \* self.pixels as it was after each MCU decoded so far

jpgVars == <<jpg_data, jpg_file, jpg_pos, jpg_width, jpg_height, jpg_components,
             jpg_quant_tables, jpg_huffman_dc, jpg_huffman_ac, jpg_pixels, jpg_scan,
             jpg_pc, jpg_raised, jpg_failed, jpg_written>>

\* The variables of the two decoders.
decoderVars == <<pngVars, jpgVars>>

\* One call of PNGDecoder._unfilter_row on a scanline a PNG writer filtered.
VARIABLES
    uf_filter_type,  \* the argument filter_type
    uf_bpp,          \* the argument bpp
    uf_prev_row,     \* the argument prev_row, the unfiltered row above
    uf_scanline,     \* the bytes of the scanline before the writer filtered it
    uf_row,          \* the argument row, the filtered scanline
    uf_result,       \* the list _unfilter_row returned
    uf_pc            \* "input", "filtered" (uf_row made), "unfiltered" (returned)

filterVars == <<uf_filter_type, uf_bpp, uf_prev_row, uf_scanline, uf_row, uf_result,
                uf_pc>>

\* One call of generate_mcp_sequence(layer) on a vectorizer holding lines.
VARIABLES
    mcp_layer   \* the argument layer

\* One call of ContourTracer(image).trace_all_contours(min_length), the raster
\* scan of lines 1257-1265 one cell at a time.
VARIABLES
    tr_image,       \* self.image
    tr_min_length,  \* the argument min_length
    tr_k,           \* the cell the scan is at, y * width + x
    tr_visited,     \* self.visited
    tr_contours,    \* the local contours, each the list of its points
    tr_walks,       \* one record per call of _trace_contour, in call order
    tr_pc           \* "idle", "scan", "returned"

traceVars == <<tr_image, tr_min_length, tr_k, tr_visited, tr_contours, tr_walks, tr_pc>>

\* Two ImageVectorizer objects, each run by its own thread; every variable is
\* a function of the instance.
VARIABLES
    pr_file,        \* the grid the instance's image file binarizes to
    pr_epsilon,     \* the instance's simplify_epsilon
    pr_image,       \* the instance's binary_image
    pr_labels,      \* num_labels of the instance's labeler
    pr_visited,     \* visited of the instance's ContourTracer
    pr_contours,    \* the instance's contours
    pr_simplified,  \* the instance's simplified_contours
    pr_lines,       \* the instance's lines
    pr_pc           \* "new", "loaded", "labelled", "traced", "simplified",
                    \* "done", "raised", or "idle"

pairVars == <<pr_file, pr_epsilon, pr_image, pr_labels, pr_visited, pr_contours,
              pr_simplified, pr_lines, pr_pc>>

\* One call of ContourTracer._trace_contour(start_x, start_y), the while loop
\* of lines 1278-1309 one iteration at a time.
VARIABLES
    wk_image,      \* self.image
    wk_start,      \* <<start_x, start_y>>
    wk_pos,        \* the locals <<x, y>>
    wk_direction,  \* the local direction
    wk_first,      \* the local first
    wk_points,     \* contour.points
    wk_pc          \* "idle", "loop", or how the loop was left: "no_neighbour",
                   \* "start", "cap"

walkVars == <<wk_image, wk_start, wk_pos, wk_direction, wk_first, wk_points, wk_pc>>

\* One call of EdgeDetector.detect_edges or detect_edges_simple.
VARIABLES
    eg_gray,       \* the argument gray_image
    eg_threshold,  \* the argument threshold
    eg_mode,       \* "edge" (detect_edges) or "edge_simple" (detect_edges_simple)
    eg_binary,     \* the BinaryImage returned
    eg_pc          \* "idle", "call", "returned"

edgeVars == <<eg_gray, eg_threshold, eg_mode, eg_binary, eg_pc>>

\* One call of PNGDecoder._decode_image_data on a decoder whose header and
\* palette are parsed.
VARIABLES
    rw_header,   \* width, height, bit_depth, color_type of the decoder
    rw_palette,  \* self.palette
    rw_raw,      \* the inflated image data, raw_data
    rw_result,   \* [error, pixels, pos] when the call is over
    rw_pc        \* "idle", "call", "returned"

rowVars == <<rw_header, rw_palette, rw_raw, rw_result, rw_pc>>

\* One call of load_image_native(filepath) and of
\* BinaryImage.from_grayscale_array on the grid it returns.
VARIABLES
    gr_file,    \* the file: its kind and what its decoder or header holds
    gr_result,  \* [error, width, height, pixels] when the call is over
    gr_binary,  \* <<the BinaryImage built from the grid>>, or <<>>
    gr_pc       \* "idle", "call", "returned"

grayVars == <<gr_file, gr_result, gr_binary, gr_pc>>

\* What the caller of one reused ImageVectorizer has seen of it.
VARIABLES
    ru_last,      \* the method called last, or "none"
    ru_tick,      \* flips at every method call
    ru_returned,  \* what the last load_image returned: <<>>, <<TRUE>>, <<FALSE>>
    ru_loaded,    \* whether a load_image has returned True
    ru_produced,  \* whether a vectorize has returned a list with a line in it
    ru_image      \* <<the binarization of the last file loaded>>, or <<>>

reuseVars == <<ru_last, ru_tick, ru_returned, ru_loaded, ru_produced, ru_image>>

\* The variables of the specifications added last.
laterVars == <<walkVars, edgeVars, rowVars, grayVars, reuseVars>>

\* The variables of the specifications of single components.
otherVars == <<filterVars, mcp_layer, traceVars, pairVars, laterVars>>

vars == <<dpVars, vecVars, loadVars, cliVars, decoderVars, otherVars>>

(***************************************************************************)
(* Bounds of the simplifier's inputs.                                      *)
(***************************************************************************)
MaxCoord == 1
MaxLen == 5
MaxEpsNum == 2
EpsDen == 2

(***************************************************************************)
(* Bounds of the grids the vectorizer is run on, and of its two filters.   *)
(***************************************************************************)
GridW == 3
GridH == 3
MaxForeground == 6
MaxMinArea == 2
MaxMinLength == 4

(***************************************************************************)
(* Bounds of the images cli_vectorize is run on.                           *)
(***************************************************************************)
CliW == 3
CliH == 3

(***************************************************************************)
(* Bounds of the PNG files decode_bytes is run on: the image size, and the *)
(* byte of the zlib stream after which a second IDAT chunk starts.         *)
(***************************************************************************)
PngW == 2
PngH == 2
PngSplit == 3

(***************************************************************************)
(* Bounds of the JPEG files decode_bytes is run on: the MCUs in the row,   *)
(* the image height, the largest DC difference between two MCUs, and the   *)
(* last byte after which the scan is cut off.                              *)
(***************************************************************************)
JpgMcus == 3
JpgH == 2
JpgMaxDiff == 1
JpgMaxCut == 1

(***************************************************************************)
(* Point (line 758) is a pair <<x, y>>.  Distances are floats in the       *)
(* source; the model keeps the square of a distance as an exact fraction   *)
(* <<numerator, denominator>> with a positive denominator, and compares    *)
(* fractions by cross-multiplication (sqrt is monotone, so the order of    *)
(* the squares is the order of the distances; float rounding is not        *)
(* modelled).                                                              *)
(***************************************************************************)
Sq(n) == n * n

distance_to_sq(p, q) == Sq(p[1] - q[1]) + Sq(p[2] - q[2])

FracGT(a, b) == a[1] * b[2] > b[1] * a[2]

\* PathSimplifier._perpendicular_distance, squared.
perpendicular_distance_sq(point, line_start, line_end) ==
    LET dx == line_end[1] - line_start[1]
        dy == line_end[2] - line_start[2]
        line_len_sq == dx * dx + dy * dy
        \* t = tnum / line_len_sq, clamped to [0, 1]
        tnum == (point[1] - line_start[1]) * dx + (point[2] - line_start[2]) * dy
    IN  IF dx = 0 /\ dy = 0 THEN <<distance_to_sq(point, line_start), 1>>
        ELSE IF tnum <= 0 THEN <<distance_to_sq(point, line_start), 1>>
        ELSE IF tnum >= line_len_sq THEN <<distance_to_sq(point, line_end), 1>>
        ELSE <<distance_to_sq(point, line_start) * line_len_sq - tnum * tnum,
               line_len_sq>>

\* The loop of simplify taking the last point of the largest distance
\* (dist >= max_dist in the place of dist > max_dist).
RECURSIVE farthest_last_tie(_, _, _, _)
farthest_last_tie(points, i, max_dist, max_idx) ==
    IF i >= Len(points) - 1 THEN <<max_dist, max_idx>>
    ELSE LET dist == perpendicular_distance_sq(points[i + 1], points[1],
                                               points[Len(points)])
         IN  IF ~FracGT(max_dist, dist)
             THEN farthest_last_tie(points, i + 1, dist, i)
             ELSE farthest_last_tie(points, i + 1, max_dist, max_idx)

\* The loop of simplify (lines 1341-1348) from Python index i on: the pair
\* <<max_dist squared, max_idx>>, max_idx a Python (0-based) index.
RECURSIVE farthest(_, _, _, _)
farthest(points, i, max_dist, max_idx) ==
    IF i >= Len(points) - 1 THEN <<max_dist, max_idx>>
    ELSE LET dist == perpendicular_distance_sq(points[i + 1], points[1],
                                               points[Len(points)])
         IN  IF FracGT(dist, max_dist)
             THEN farthest(points, i + 1, dist, i)
             ELSE farthest(points, i + 1, max_dist, max_idx)

\* max_dist > epsilon / 2 in the place of max_dist > epsilon.
exceeds_half(max_dist, epsilon) ==
    IF epsilon[1] < 0 THEN TRUE
    ELSE FracGT(max_dist, <<Sq(epsilon[1]), 4 * Sq(epsilon[2])>>)

\* max_dist > epsilon, on the squares; a negative epsilon is below every
\* distance.
exceeds(max_dist, epsilon) ==
    IF epsilon[1] < 0 THEN TRUE
    ELSE FracGT(max_dist, <<Sq(epsilon[1]), Sq(epsilon[2])>>)

\* PathSimplifier.simplify never returns (Python raises RecursionError): with
\* max_dist > epsilon and max_idx still 0, which needs epsilon < 0, the right
\* half points[max_idx:] is the whole list again.
RECURSIVE simplify_raises(_, _)
simplify_raises(points, epsilon) ==
    /\ Len(points) >= 3
    /\ LET far == farthest(points, 1, <<0, 1>>, 0)
           max_dist == far[1]
           max_idx == far[2]
       IN  /\ exceeds(max_dist, epsilon)
           /\ \/ max_idx = 0
              \/ simplify_raises(SubSeq(points, 1, max_idx + 1), epsilon)
              \/ simplify_raises(SubSeq(points, max_idx + 1, Len(points)), epsilon)

\* simplify with the join point kept in both halves (left + right instead of
\* left[:-1] + right).
RECURSIVE simplify_join_twice(_, _)
simplify_join_twice(points, epsilon) ==
    IF Len(points) < 3 THEN points
    ELSE LET far == farthest(points, 1, <<0, 1>>, 0)
         IN  IF exceeds(far[1], epsilon) /\ far[2] > 0
             THEN simplify_join_twice(SubSeq(points, 1, far[2] + 1), epsilon)
                  \o simplify_join_twice(SubSeq(points, far[2] + 1, Len(points)),
                                         epsilon)
             ELSE <<points[1], points[Len(points)]>>

\* simplify with the right half starting one past the split point
\* (points[max_idx + 1:] instead of points[max_idx:]).
RECURSIVE simplify_split_late(_, _)
simplify_split_late(points, epsilon) ==
    IF Len(points) < 3 THEN points
    ELSE LET far == farthest(points, 1, <<0, 1>>, 0)
             left == simplify_split_late(SubSeq(points, 1, far[2] + 1), epsilon)
         IN  IF exceeds(far[1], epsilon) /\ far[2] > 0
             THEN SubSeq(left, 1, Len(left) - 1)
                  \o simplify_split_late(SubSeq(points, far[2] + 2, Len(points)),
                                         epsilon)
             ELSE <<points[1], points[Len(points)]>>

\* PathSimplifier.simplify, where it returns (~simplify_raises).
RECURSIVE simplify(_, _)
simplify(points, epsilon) ==
    IF Len(points) < 3 THEN points
    ELSE LET far == farthest(points, 1, <<0, 1>>, 0)
             max_dist == far[1]
             max_idx == far[2]
         IN  IF exceeds(max_dist, epsilon) /\ max_idx > 0
             THEN LET left == simplify(SubSeq(points, 1, max_idx + 1), epsilon)
                      right == simplify(SubSeq(points, max_idx + 1, Len(points)),
                                        epsilon)
                  IN  SubSeq(left, 1, Len(left) - 1) \o right
             ELSE <<points[1], points[Len(points)]>>

(***************************************************************************)
(* BinaryImage: a record [width, height, pixels] with pixels[y][x] in      *)
(* {0, 1}, rows and columns numbered from 0 as in the source.              *)
(***************************************************************************)
NewBinaryImage(width, height) ==
    [width |-> width, height |-> height,
     pixels |-> [y \in 0..(height - 1) |-> [x \in 0..(width - 1) |-> 0]]]

InImage(img, x, y) == 0 <= x /\ x < img.width /\ 0 <= y /\ y < img.height

\* BinaryImage.get_pixel: 0 outside the image.
get_pixel(img, x, y) == IF InImage(img, x, y) THEN img.pixels[y][x] ELSE 0

(***************************************************************************)
(* ConnectedComponentLabeler                                               *)
(***************************************************************************)
\* _flood_fill: the BFS loop from the queue's state on.  Returns the label
\* array and the list of pixels given the label.
RECURSIVE flood_fill_loop(_, _, _, _, _)
flood_fill_loop(img, labels, queue, pixels, label) ==
    IF queue = <<>> THEN [labels |-> labels, pixels |-> pixels]
    ELSE LET x == Head(queue)[1]
             y == Head(queue)[2]
             rest == Tail(queue)
         IN  IF ~InImage(img, x, y)
             THEN flood_fill_loop(img, labels, rest, pixels, label)
             ELSE IF get_pixel(img, x, y) # 1 \/ labels[y][x] # 0
             THEN flood_fill_loop(img, labels, rest, pixels, label)
             ELSE flood_fill_loop(img, [labels EXCEPT ![y][x] = label],
                      rest \o << <<x + 1, y>>, <<x - 1, y>>,
                                 <<x, y + 1>>, <<x, y - 1>> >>,
                      Append(pixels, <<x, y>>), label)

flood_fill(img, labels, start_x, start_y, label) ==
    flood_fill_loop(img, labels, << <<start_x, start_y>> >>, <<>>, label)

\* labels with the given pixels set back to 0 (lines 1194-1195).
RECURSIVE unlabel(_, _)
unlabel(labels, pixels) ==
    IF pixels = <<>> THEN labels
    ELSE unlabel([labels EXCEPT ![Head(pixels)[2]][Head(pixels)[1]] = 0],
                 Tail(pixels))

\* The test of line 1190 keeping every region.
component_kept_always(pixels, min_area) == TRUE

\* len(pixels) >= min_area (line 1190).
component_kept(pixels, min_area) == Len(pixels) >= min_area

\* The first of a non-empty set of cell numbers in raster order.
first_cell(S) == CHOOSE k \in S : \A j \in S : k <= j

\* label: the raster scan from cell k = y * width + x on; the scan passes
\* over the cells that are background or labelled already (lines 1184-1185)
\* to the first that is neither.  st is the labeler's state
\* [labels, current_label, label_pixels].
RECURSIVE label_loop(_, _, _, _)
label_loop(img, min_area, k, st) ==
    LET unlabelled == {j \in k..(img.width * img.height - 1) :
                         /\ get_pixel(img, j % img.width, j \div img.width) = 1
                         /\ st.labels[j \div img.width][j % img.width] = 0}
    IN  IF unlabelled = {} THEN st
        ELSE LET j == first_cell(unlabelled)
                 x == j % img.width
                 y == j \div img.width
                 filled == flood_fill(img, st.labels, x, y, st.current_label + 1)
             IN  IF component_kept(filled.pixels, min_area)
                 THEN label_loop(img, min_area, j + 1,
                          [labels |-> filled.labels,
                           current_label |-> st.current_label + 1,
                           label_pixels |-> Append(st.label_pixels, filled.pixels)])
                 ELSE label_loop(img, min_area, j + 1,
                          [st EXCEPT !.labels = unlabel(filled.labels,
                                                        filled.pixels)])

\* ConnectedComponentLabeler(img).label(min_area): the labeler's state after
\* the call; current_label is num_labels, the value returned.
label(img, min_area) ==
    label_loop(img, min_area, 0,
               [labels |-> NewBinaryImage(img.width, img.height).pixels,
                current_label |-> 0,
                label_pixels |-> <<>>])

(***************************************************************************)
(* ContourTracer                                                           *)
(***************************************************************************)
\* Moore neighbours, clockwise from the right; DIRECTIONS[d + 1] is the
\* source's DIRECTIONS[d].
DIRECTIONS == << <<1, 0>>, <<1, 1>>, <<0, 1>>, <<-1, 1>>,
                 <<-1, 0>>, <<-1, -1>>, <<0, -1>>, <<1, -1>> >>

\* The for loop of _trace_contour (lines 1287-1296): the first i in 0..7 whose
\* neighbour in direction (start_dir + i) % 8 is foreground, or 8.
RECURSIVE first_foreground(_, _, _, _, _)
first_foreground(img, x, y, start_dir, i) ==
    IF i >= 8 THEN 8
    ELSE LET d == DIRECTIONS[((start_dir + i) % 8) + 1]
         IN  IF get_pixel(img, x + d[1], y + d[2]) = 1 THEN i
             ELSE first_foreground(img, x, y, start_dir, i + 1)

\* The while loop of _trace_contour from the top of an iteration.
RECURSIVE trace_loop(_, _, _, _, _, _, _, _, _)
trace_loop(img, start_x, start_y, x, y, direction, first, points, visited) ==
    LET points1 == Append(points, <<x, y>>)
        visited1 == visited \cup {<<x, y>>}
        start_dir == (direction + 5) % 8
        i == first_foreground(img, x, y, start_dir, 0)
        check_dir == (start_dir + i) % 8
        nx == x + DIRECTIONS[check_dir + 1][1]
        ny == y + DIRECTIONS[check_dir + 1][2]
    IN  IF i = 8 THEN [points |-> points1, visited |-> visited1]
        ELSE IF ~first /\ nx = start_x /\ ny = start_y
        THEN [points |-> points1, visited |-> visited1]
        ELSE IF Len(points1) > img.width * img.height
        THEN [points |-> points1, visited |-> visited1]
        ELSE trace_loop(img, start_x, start_y, nx, ny, check_dir, FALSE,
                        points1, visited1)

\* The walk of _trace_contour: the points appended and the tracer's visited
\* set after it.
trace_walk(img, start_x, start_y, visited) ==
    trace_loop(img, start_x, start_y, start_x, start_y, 0, TRUE, <<>>, visited)

\* _trace_contour returning every walk, however short.
contour_returned_always(points) == Len(points) >= 1

\* _trace_contour returns the contour, not None (line 1311).
contour_returned(points) == Len(points) >= 3

\* trace_all_contours keeps the contour (line 1264).
contour_kept(points, min_length) ==
    contour_returned(points) /\ Len(points) >= min_length

\* trace_all_contours: the raster scan from cell k on; the scan passes over
\* the cells that fail one of the tests of lines 1260-1262 to the first that
\* passes them all.  st is [contours, visited].
RECURSIVE trace_all_loop(_, _, _, _)
trace_all_loop(img, min_length, k, st) ==
    LET starts == {j \in k..(img.width * img.height - 1) :
                     /\ get_pixel(img, j % img.width, j \div img.width) = 1
                     /\ get_pixel(img, (j % img.width) - 1, j \div img.width) = 0
                     /\ <<j % img.width, j \div img.width>> \notin st.visited}
    IN  IF starts = {} THEN st
        ELSE LET j == first_cell(starts)
                 walk == trace_walk(img, j % img.width, j \div img.width, st.visited)
             IN  trace_all_loop(img, min_length, j + 1,
                     [contours |-> IF contour_kept(walk.points, min_length)
                                   THEN Append(st.contours, walk.points)
                                   ELSE st.contours,
                      visited |-> walk.visited])

\* ContourTracer(img).trace_all_contours(min_length): the contours, each the
\* list of its points.
trace_all_contours(img, min_length) ==
    trace_all_loop(img, min_length, 0,
                   [contours |-> <<>>, visited |-> {}]).contours

(***************************************************************************)
(* ImageVectorizer                                                         *)
(***************************************************************************)
None == <<>>

\* flip_y (line 1411), never reassigned.
flip_y == TRUE

\* The attribute defaults of __init__ (lines 1401-1410).
DEFAULT_MODE == "binary"
DEFAULT_THRESHOLD == 128
DEFAULT_EDGE_THRESHOLD == 50
DEFAULT_MIN_COMPONENT_AREA == 16
DEFAULT_MIN_CONTOUR_LENGTH == 10
DEFAULT_SIMPLIFY_EPSILON == <<2, 1>>
DEFAULT_OUTPUT_SCALE == <<1, 1>>
DEFAULT_OUTPUT_OFFSET == <<0, 0>>

NoLabeler == [labels |-> <<>>, current_label |-> 0, label_pixels |-> <<>>]

\* _transform_point without the flip of the y axis.
transform_point_no_flip(point, image, scale, offset) ==
    <<<<point[1] * scale[1] + offset[1] * scale[2], scale[2]>>,
      <<point[2] * scale[1] + offset[2] * scale[2], scale[2]>>>>

\* _transform_point: the output point, each coordinate a fraction <<num, den>>
\* over the denominator of the scale.
transform_point(point, image, scale, offset) ==
    LET x == <<point[1] * scale[1] + offset[1] * scale[2], scale[2]>>
        y == IF flip_y /\ image # None
             THEN <<(image[1].height - point[2]) * scale[1] + offset[2] * scale[2],
                    scale[2]>>
             ELSE <<point[2] * scale[1] + offset[2] * scale[2], scale[2]>>
    IN  <<x, y>>

Line(start, end) == [start |-> start, end |-> end, layer |-> "OUTLINE"]

\* _contour_to_lines closing every contour of 2 points or more (line 1504
\* without `and len(points) > 2`).
contour_to_lines_always_closed(points, image, scale, offset) ==
    IF Len(points) < 2 THEN <<>>
    ELSE [i \in 1..(Len(points) - 1) |->
              Line(transform_point(points[i], image, scale, offset),
                   transform_point(points[i + 1], image, scale, offset))]
         \o <<Line(transform_point(points[Len(points)], image, scale, offset),
                   transform_point(points[1], image, scale, offset))>>

\* _contour_to_lines: the lines one contour appends to self.lines; every
\* Contour is built with is_closed = True.
contour_to_lines(points, image, scale, offset) ==
    IF Len(points) < 2 THEN <<>>
    ELSE [i \in 1..(Len(points) - 1) |->
              Line(transform_point(points[i], image, scale, offset),
                   transform_point(points[i + 1], image, scale, offset))]
         \o (IF Len(points) > 2
             THEN <<Line(transform_point(points[Len(points)], image, scale, offset),
                         transform_point(points[1], image, scale, offset))>>
             ELSE <<>>)

\* The loop of vectorize over self.simplified_contours (lines 1485-1487).
RECURSIVE all_lines(_, _, _, _)
all_lines(cs, image, scale, offset) ==
    IF cs = <<>> THEN <<>>
    ELSE contour_to_lines(Head(cs), image, scale, offset)
         \o all_lines(Tail(cs), image, scale, offset)

\* The number of contours simplify returns for before it first raises
\* (lines 1474-1482).
RECURSIVE simplified_before_raise(_, _)
simplified_before_raise(cs, epsilon) ==
    IF cs = <<>> THEN 0
    ELSE IF simplify_raises(Head(cs), epsilon) THEN 0
    ELSE 1 + simplified_before_raise(Tail(cs), epsilon)

\* ImageVectorizer.vectorize.  (The locals are bound by \E over a singleton
\* so that each is computed once.)
vectorize ==
    IF binary_image = None
    THEN /\ raised' = "ValueError: No image loaded"
         /\ UNCHANGED resultVars
    ELSE \E traced \in {trace_all_contours(binary_image[1], min_contour_length)} :
         \E n \in {simplified_before_raise(traced, simplify_epsilon)} :
         \E simplified \in {[i \in 1..n |-> simplify(traced[i], simplify_epsilon)]} :
             /\ labeler' = label(binary_image[1], min_component_area)
             /\ contours' = traced
             /\ simplified_contours' = simplified
             /\ IF n < Len(traced)
                THEN /\ raised' = "RecursionError"
                     /\ UNCHANGED lines
                ELSE /\ raised' = "none"
                     /\ lines' = all_lines(simplified, binary_image, output_scale,
                                           output_offset)

\* BATCH_SIZE of generate_mcp_sequence.
BATCH_SIZE == 50

Min(a, b) == IF a < b THEN a ELSE b

\* round(v, 2) of a coordinate v = num / den, in hundredths (floor(100 v + 1/2);
\* Python rounds the binary float, which differs only on ties).
round2(v) == (200 * v[1] + v[2]) \div (2 * v[2])

\* One create_line entry of generate_mcp_sequence; i counts from 0.
line_tool(line, i, layer) ==
    [tool |-> "create_line",
     args |-> [start |-> [x |-> round2(line.start[1]), y |-> round2(line.start[2])],
               end |-> [x |-> round2(line.end[1]), y |-> round2(line.end[2])],
               layer |-> layer],
     id |-> i]

\* generate_mcp_sequence numbering its batch steps from 1 (step b in the
\* place of len(sequence) + 1).
generate_mcp_sequence_steps_from_1(ls, layer) ==
    IF ls = <<>>
    THEN [error |-> <<"No lines generated. Run vectorize() first.">>]
    ELSE LET line_tools == [i \in 1..Len(ls) |-> line_tool(ls[i], i - 1, layer)]
             nbatches == (Len(ls) + BATCH_SIZE - 1) \div BATCH_SIZE
             batch(b) == [step |-> b,
                          parallel |-> TRUE,
                          tools |-> SubSeq(line_tools, (b - 1) * BATCH_SIZE + 1,
                                           Min(b * BATCH_SIZE, Len(ls)))]
             sequence == <<[step |-> 1,
                            parallel |-> FALSE,
                            tools |-> <<[tool |-> "create_layer",
                                         args |-> [name |-> layer, color |-> 7]]>>]>>
                         \o [b \in 1..nbatches |-> batch(b)]
         IN  [success |-> TRUE,
              total_lines |-> Len(ls),
              total_steps |-> Len(sequence),
              sequence |-> sequence]

\* ImageVectorizer.generate_mcp_sequence: the value returned.  A message is
\* the sequence of the pieces its f-string joins.
generate_mcp_sequence(ls, layer) ==
    IF ls = <<>>
    THEN [error |-> <<"No lines generated. Run vectorize() first.">>]
    ELSE LET line_tools == [i \in 1..Len(ls) |-> line_tool(ls[i], i - 1, layer)]
             nbatches == (Len(ls) + BATCH_SIZE - 1) \div BATCH_SIZE
             batch(b) == [step |-> b + 1,
                          parallel |-> TRUE,
                          tools |-> SubSeq(line_tools, (b - 1) * BATCH_SIZE + 1,
                                           Min(b * BATCH_SIZE, Len(ls)))]
             sequence == <<[step |-> 1,
                            parallel |-> FALSE,
                            tools |-> <<[tool |-> "create_layer",
                                         args |-> [name |-> layer, color |-> 7]]>>]>>
                         \o [b \in 1..nbatches |-> batch(b)]
         IN  [success |-> TRUE,
              total_lines |-> Len(ls),
              total_steps |-> Len(sequence),
              sequence |-> sequence]

IsError(result) == "error" \in DOMAIN result

(***************************************************************************)
(* SpecVectorize: a new ImageVectorizer whose two filters are set, then    *)
(* load_image, vectorize, generate_mcp_sequence called on it.              *)
(***************************************************************************)
Cells == (0..(GridW - 1)) \X (0..(GridH - 1))

\* The GridW x GridH binary image whose foreground is the set fg of cells.
GridOf(fg) ==
    [width |-> GridW, height |-> GridH,
     pixels |-> [y \in 0..(GridH - 1) |->
                   [x \in 0..(GridW - 1) |-> IF <<x, y>> \in fg THEN 1 ELSE 0]]]

Grids == {GridOf(fg) : fg \in {f \in SUBSET Cells : Cardinality(f) <= MaxForeground}}

DpIdle ==
    /\ dp_points = <<>>
    /\ dp_epsilon = <<0, 1>>
    /\ dp_once = <<>>
    /\ dp_twice = <<>>
    /\ dp_pc = "idle"

VecIdle ==
    /\ binary_image = None
    /\ mode = DEFAULT_MODE
    /\ threshold = DEFAULT_THRESHOLD
    /\ edge_threshold = DEFAULT_EDGE_THRESHOLD
    /\ min_component_area = DEFAULT_MIN_COMPONENT_AREA
    /\ min_contour_length = DEFAULT_MIN_CONTOUR_LENGTH
    /\ simplify_epsilon = DEFAULT_SIMPLIFY_EPSILON
    /\ output_scale = DEFAULT_OUTPUT_SCALE
    /\ output_offset = DEFAULT_OUTPUT_OFFSET
    /\ contours = <<>>
    /\ simplified_contours = <<>>
    /\ lines = <<>>
    /\ labeler = NoLabeler
    /\ calls = {}
    /\ raised = "none"
    /\ mcp_result = [none |-> TRUE]
    /\ gray_image = None
    /\ decoded_by = "none"
    /\ printed = <<>>

NoHeader ==
    [width |-> 0, height |-> 0, bit_depth |-> 8, color_type |-> 0,
     compression |-> 0, filter_method |-> 0, interlace |-> 0]

PngIdle ==
    /\ png_data = <<>>
    /\ png_defect = "idle"
    /\ png_pos = 0
    /\ png_idat = <<>>
    /\ png_header = NoHeader
    /\ png_palette = <<>>
    /\ png_pixels = <<>>
    /\ png_pc = "idle"
    /\ png_raised = "none"

NewReader ==
    [scan_pos |-> 0, bit_buffer |-> 0, bits_left |-> 0,
     exhausted |-> FALSE, unmatched |-> FALSE]

NoScan ==
    [scan_data |-> <<>>, comp_info |-> <<>>, r |-> NewReader, dc_pred |-> <<>>,
     mcu |-> 0, mcus_x |-> 0, mcus_y |-> 0, mcu_width |-> 0, mcu_height |-> 0]

NoFailure == [mcu |-> -1, kind |-> "none"]

JpgIdle ==
    /\ jpg_data = <<>>
    /\ jpg_file = <<>>
    /\ jpg_pos = 0
    /\ jpg_width = 0
    /\ jpg_height = 0
    /\ jpg_components = <<>>
    /\ jpg_quant_tables = <<>>
    /\ jpg_huffman_dc = <<>>
    /\ jpg_huffman_ac = <<>>
    /\ jpg_pixels = <<>>
    /\ jpg_scan = NoScan
    /\ jpg_pc = "idle"
    /\ jpg_raised = "none"
    /\ jpg_failed = NoFailure
    /\ jpg_written = <<>>

UfIdle ==
    /\ uf_filter_type = 0
    /\ uf_bpp = 1
    /\ uf_prev_row = <<>>
    /\ uf_scanline = <<>>
    /\ uf_row = <<>>
    /\ uf_result = <<>>
    /\ uf_pc = "idle"

McpIdle == mcp_layer = "TRACE"

TrIdle ==
    /\ tr_image = <<>>
    /\ tr_min_length = 0
    /\ tr_k = 0
    /\ tr_visited = {}
    /\ tr_contours = <<>>
    /\ tr_walks = <<>>
    /\ tr_pc = "idle"

PairIdle ==
    /\ pr_file = <<>>
    /\ pr_epsilon = <<>>
    /\ pr_image = <<>>
    /\ pr_labels = <<>>
    /\ pr_visited = <<>>
    /\ pr_contours = <<>>
    /\ pr_simplified = <<>>
    /\ pr_lines = <<>>
    /\ pr_pc = <<>>

WkIdle ==
    /\ wk_image = <<>>
    /\ wk_start = <<>>
    /\ wk_pos = <<>>
    /\ wk_direction = 0
    /\ wk_first = TRUE
    /\ wk_points = <<>>
    /\ wk_pc = "idle"

EgIdle ==
    /\ eg_gray = <<>>
    /\ eg_threshold = 0
    /\ eg_mode = ""
    /\ eg_binary = <<>>
    /\ eg_pc = "idle"

RwIdle ==
    /\ rw_header = <<>>
    /\ rw_palette = <<>>
    /\ rw_raw = <<>>
    /\ rw_result = <<>>
    /\ rw_pc = "idle"

GrIdle ==
    /\ gr_file = <<>>
    /\ gr_result = <<>>
    /\ gr_binary = <<>>
    /\ gr_pc = "idle"

RuIdle ==
    /\ ru_last = "none"
    /\ ru_tick = FALSE
    /\ ru_returned = <<>>
    /\ ru_loaded = FALSE
    /\ ru_produced = FALSE
    /\ ru_image = <<>>

LaterIdle == WkIdle /\ EgIdle /\ RwIdle /\ GrIdle /\ RuIdle

OtherIdle == UfIdle /\ McpIdle /\ TrIdle /\ PairIdle /\ LaterIdle

CliIdle ==
    /\ file = [ext |-> "", ok |-> FALSE, gray |-> <<>>]
    /\ pil_installed = FALSE
    /\ options = <<>>
    /\ bg = <<>>
    /\ cli_pc = "idle"
    /\ cli_result = [none |-> TRUE]

InitVectorize ==
    /\ DpIdle
    /\ OtherIdle
    /\ CliIdle
    /\ PngIdle
    /\ JpgIdle
    /\ gray_image = None
    /\ decoded_by = "none"
    /\ printed = <<>>
    /\ binary_image = None
    /\ mode = DEFAULT_MODE
    /\ threshold = DEFAULT_THRESHOLD
    /\ edge_threshold = DEFAULT_EDGE_THRESHOLD
    /\ min_component_area \in 1..MaxMinArea
    /\ min_contour_length \in 0..MaxMinLength
    /\ simplify_epsilon \in {<<1, 2>>, DEFAULT_SIMPLIFY_EPSILON}
    /\ output_scale = DEFAULT_OUTPUT_SCALE
    /\ output_offset = DEFAULT_OUTPUT_OFFSET
    /\ contours = <<>>
    /\ simplified_contours = <<>>
    /\ lines = <<>>
    /\ labeler = NoLabeler
    /\ calls = {}
    /\ raised = "none"
    /\ mcp_result = [none |-> TRUE]

\* load_image returns True on a file whose binarization is the grid img.
VecLoadImage ==
    /\ binary_image = None
    /\ \E img \in Grids : binary_image' = <<img>>
    /\ calls' = calls \cup {"load_image"}
    /\ raised' = "none"
    /\ UNCHANGED <<dpVars, configVars, outputVars, resultVars, mcp_result, loadVars,
                   cliVars>>
    /\ UNCHANGED <<decoderVars, otherVars>>

VecVectorize ==
    /\ vectorize
    /\ calls' = calls \cup {"vectorize"}
    /\ UNCHANGED <<dpVars, binary_image, configVars, outputVars, mcp_result, loadVars,
                   cliVars>>
    /\ UNCHANGED <<decoderVars, otherVars>>

VecGenerate ==
    /\ mcp_result' = generate_mcp_sequence(lines, "TRACE")
    /\ calls' = calls \cup {"generate_mcp_sequence"}
    /\ raised' = "none"
    /\ UNCHANGED <<dpVars, binary_image, configVars, outputVars, resultVars, loadVars,
                   cliVars>>
    /\ UNCHANGED <<decoderVars, otherVars>>

NextVectorize == VecLoadImage \/ VecVectorize \/ VecGenerate

SpecVectorize == InitVectorize /\ [][NextVectorize]_vars

\* The foreground cells reachable from the cells of S by steps to a 4-neighbour.
RECURSIVE Grow4(_, _)
Grow4(img, S) ==
    LET more == {q \in (0..(img.width - 1)) \X (0..(img.height - 1)) :
                    /\ img.pixels[q[2]][q[1]] = 1
                    /\ \E p \in S : Sq(p[1] - q[1]) + Sq(p[2] - q[2]) = 1}
    IN  IF more \subseteq S THEN S ELSE Grow4(img, S \cup more)

\* The 4-connected foreground component of the foreground cell p.
Component4(img, p) == Grow4(img, {p})

Max(a, b) == IF a > b THEN a ELSE b

Vectorized == binary_image # None /\ "vectorize" \in calls

\* C1: no contour that vectorize() returns holds a pixel of a 4-connected
\* foreground component with fewer than min_area pixels (the components the
\* labeler drops are not traced).
C1_DroppedComponentsNotTraced ==
    Vectorized =>
        \A i \in 1..Len(contours) : \A j \in 1..Len(contours[i]) :
            Cardinality(Component4(binary_image[1], contours[i][j]))
                >= min_component_area

\* C2: generate_mcp_sequence called after a vectorize() that produced no
\* lines returns a successful result with total_lines = 0, not an error
\* object.
C2_EmptyResultIsSuccess ==
    [][(/\ Vectorized
        /\ raised = "none"
        /\ lines = <<>>
        /\ "generate_mcp_sequence" \in calls'
        /\ "generate_mcp_sequence" \notin calls)
       => (/\ ~IsError(mcp_result')
           /\ mcp_result'.total_lines = 0)]_vars

\* C8: every contour trace_all_contours(min_length = M) returns has at least
\* max(M, 3) points.
C8_ContourHasMinPoints ==
    Vectorized =>
        \A i \in 1..Len(contours) :
            Len(contours[i]) >= Max(min_contour_length, 3)

\* C8 witness: with M below 3, a contour of exactly 3 points was returned.
C8_Witness ==
    /\ Vectorized
    /\ min_contour_length < 3
    /\ \E i \in 1..Len(contours) : Len(contours[i]) = 3

(***************************************************************************)
(* SpecSimplify: simplify applied once, then to its own result.            *)
(***************************************************************************)
Coords == 0..MaxCoord
LatticePoints == Coords \X Coords
PointLists == UNION {[1..n -> LatticePoints] : n \in 0..MaxLen}
Epsilons == {<<n, EpsDen>> : n \in 0..MaxEpsNum}

InitSimplify ==
    /\ VecIdle
    /\ OtherIdle
    /\ CliIdle
    /\ PngIdle
    /\ JpgIdle
    /\ dp_points \in PointLists
    /\ dp_epsilon \in Epsilons
    /\ dp_once = <<>>
    /\ dp_twice = <<>>
    /\ dp_pc = "input"

SimplifyOnce ==
    /\ dp_pc = "input"
    /\ ~simplify_raises(dp_points, dp_epsilon)
    /\ dp_once' = simplify(dp_points, dp_epsilon)
    /\ dp_pc' = "once"
    /\ UNCHANGED <<dp_points, dp_epsilon, dp_twice, vecVars, loadVars, cliVars>>
    /\ UNCHANGED <<decoderVars, otherVars>>

SimplifyAgain ==
    /\ dp_pc = "once"
    /\ ~simplify_raises(dp_once, dp_epsilon)
    /\ dp_twice' = simplify(dp_once, dp_epsilon)
    /\ dp_pc' = "twice"
    /\ UNCHANGED <<dp_points, dp_epsilon, dp_once, vecVars, loadVars, cliVars>>
    /\ UNCHANGED <<decoderVars, otherVars>>

NextSimplify == SimplifyOnce \/ SimplifyAgain

SpecSimplify == InitSimplify /\ [][NextSimplify]_vars

\* a is b with some elements left out, the order of the rest kept.
RECURSIVE IsSubsequence(_, _)
IsSubsequence(a, b) ==
    IF a = <<>> THEN TRUE
    ELSE IF b = <<>> THEN FALSE
    ELSE IF a[1] = b[1] THEN IsSubsequence(Tail(a), Tail(b))
    ELSE IsSubsequence(a, Tail(b))

\* C9: for every point list and every epsilon >= 0, simplify returns an
\* order-preserving subsequence of its input that starts with the input's
\* first point and ends with its last point, so it is never longer than the
\* input.
C9_SimplifyIsSubsequence ==
    dp_pc \in {"once", "twice"} =>
        /\ IsSubsequence(dp_once, dp_points)
        /\ Len(dp_once) <= Len(dp_points)
        /\ dp_points # <<>> =>
              /\ dp_once # <<>>
              /\ dp_once[1] = dp_points[1]
              /\ dp_once[Len(dp_once)] = dp_points[Len(dp_points)]

\* C9 witness: a list of four points reduced to three, an interior point kept.
C9_Witness ==
    /\ dp_pc = "once"
    /\ Len(dp_points) = 4
    /\ Len(dp_once) = 3

\* C10: simplification is idempotent: simplifying the result of simplify with
\* the same epsilon >= 0 returns that result unchanged.
C10_SimplifyIdempotent ==
    dp_pc = "twice" => dp_twice = dp_once

\* C10 witness: the second pass ran on a result that kept an interior point
\* and dropped another.
C10_Witness ==
    /\ dp_pc = "twice"
    /\ Len(dp_once) >= 3
    /\ Len(dp_once) < Len(dp_points)

(***************************************************************************)
(* Loading a file: GrayscaleImage.from_file, BinaryImage.from_file and the *)
(* edge detectors.  A file is [ext, ok, gray]: its extension, whether the  *)
(* decoder it is handed to decodes it, and the grayscale image it then     *)
(* yields (<<>> when it does not).  A loader's outcome is                  *)
(* [ok, image, by, error]: by names the decoder the file reached.          *)
(***************************************************************************)
SUPPORTED == {"png", "jpg", "jpeg", "ppm", "pgm", "pbm"}

\* The text "png, jpg, jpeg, ppm, pgm, pbm" of the three messages (lines 755,
\* 976, 1074).
SupportedText == "png, jpg, jpeg, ppm, pgm, pbm"

Loaded(image, by) == [ok |-> TRUE, image |-> <<image>>, by |-> by, error |-> <<>>]

Failed(by, error) == [ok |-> FALSE, image |-> <<>>, by |-> by, error |-> error]

\* GrayscaleImage.set_pixel clamps the value to 0..255.
clamp(value) == IF value < 0 THEN 0 ELSE IF value > 255 THEN 255 ELSE value

\* GrayscaleImage.get_pixel.
gray_get_pixel(img, x, y) ==
    IF x >= 0 /\ x < img.width /\ y >= 0 /\ y < img.height
    THEN img.pixels[y][x]
    ELSE 0

\* The copy loop of GrayscaleImage.from_file (lines 1066-1070).
gray_copy(g) ==
    [width |-> g.width, height |-> g.height,
     pixels |-> [y \in 0..(g.height - 1) |->
                   [x \in 0..(g.width - 1) |-> clamp(g.pixels[y][x])]]]

\* GrayscaleImage.from_file with its last line replaced: an unrecognized
\* extension is handed to the native decoder.
GrayscaleImage_from_file_native_any(f) ==
    IF f.ext \in {"ppm", "pgm", "pbm"}
    THEN IF f.ok THEN Loaded(gray_copy(f.gray[1]), "native")
         ELSE Failed("native", <<"PPM parse error">>)
    ELSE IF f.ok THEN Loaded(gray_copy(f.gray[1]), "native")
         ELSE Failed("native", <<"Failed to decode image: ", "decode error">>)

\* GrayscaleImage.from_file.
GrayscaleImage_from_file(f) ==
    IF f.ext \in {"ppm", "pgm", "pbm"}
    THEN IF f.ok THEN Loaded(gray_copy(f.gray[1]), "native")
         ELSE Failed("native", <<"PPM parse error">>)
    ELSE IF f.ext \in {"png", "jpg", "jpeg"}
    THEN IF f.ok THEN Loaded(gray_copy(f.gray[1]), "native")
         ELSE Failed("native", <<"Failed to decode image: ", "decode error">>)
    ELSE Failed("none", <<"Unsupported format: ", f.ext, ". Supported: ",
                          SupportedText>>)

\* BinaryImage.from_grayscale_array, and the same loop of from_pil_image and
\* from_ppm: foreground where the gray value is below the threshold.
from_grayscale_array(g, t) ==
    [width |-> g.width, height |-> g.height,
     pixels |-> [y \in 0..(g.height - 1) |->
                   [x \in 0..(g.width - 1) |->
                      IF g.pixels[y][x] < t THEN 1 ELSE 0]]]

\* BinaryImage.from_file; pil says whether `from PIL import Image` succeeds.
BinaryImage_from_file(f, t, pil) ==
    IF f.ext \in {"ppm", "pgm", "pbm"}
    THEN IF f.ok THEN Loaded(from_grayscale_array(f.gray[1], t), "native")
         ELSE Failed("native", <<"PPM parse error">>)
    ELSE IF f.ext = "png"
    THEN IF f.ok THEN Loaded(from_grayscale_array(f.gray[1], t), "native")
         ELSE Failed("native", <<"Failed to decode PNG: ", "decode error">>)
    ELSE IF f.ext \in {"jpg", "jpeg"}
    THEN IF f.ok THEN Loaded(from_grayscale_array(f.gray[1], t), "native")
         ELSE Failed("native", <<"Failed to decode JPEG: ", "decode error">>)
    ELSE IF pil
    THEN IF f.ok THEN Loaded(from_grayscale_array(f.gray[1], t), "PIL")
         ELSE Failed("PIL", <<"cannot identify image file ", "image.", f.ext>>)
    ELSE Failed("none", <<"Unsupported format: ", f.ext, ". Supported: ",
                          SupportedText,
                          "\nOr install Pillow for additional formats.">>)

\* abs that keeps the sign.
Abs_signed(n) == n

Abs(n) == IF n < 0 THEN 0 - n ELSE n

\* int(math.sqrt(s)) > t, for an integer s >= 0.
magnitude_exceeds(s, t) == t < 0 \/ s >= (t + 1) * (t + 1)

\* detect_edges with its loops over every row and column (range(height),
\* range(width)).
detect_edges_with_border(g, t) ==
    LET P(x, y) == gray_get_pixel(g, x, y)
        gx(x, y) == (P(x + 1, y - 1) - P(x - 1, y - 1))
                    + 2 * (P(x + 1, y) - P(x - 1, y))
                    + (P(x + 1, y + 1) - P(x - 1, y + 1))
        gy(x, y) == (P(x - 1, y + 1) - P(x - 1, y - 1))
                    + 2 * (P(x, y + 1) - P(x, y - 1))
                    + (P(x + 1, y + 1) - P(x + 1, y - 1))
    IN  [width |-> g.width, height |-> g.height,
         pixels |-> [y \in 0..(g.height - 1) |->
                       [x \in 0..(g.width - 1) |->
                          IF magnitude_exceeds(gx(x, y) * gx(x, y)
                                               + gy(x, y) * gy(x, y), t)
                          THEN 1 ELSE 0]]]

\* EdgeDetector.detect_edges: Sobel, over the interior pixels only.
detect_edges(g, t) ==
    LET P(x, y) == gray_get_pixel(g, x, y)
        gx(x, y) == (P(x + 1, y - 1) - P(x - 1, y - 1))
                    + 2 * (P(x + 1, y) - P(x - 1, y))
                    + (P(x + 1, y + 1) - P(x - 1, y + 1))
        gy(x, y) == (P(x - 1, y + 1) - P(x - 1, y - 1))
                    + 2 * (P(x, y + 1) - P(x, y - 1))
                    + (P(x + 1, y + 1) - P(x + 1, y - 1))
        inner(x, y) == x >= 1 /\ x < g.width - 1 /\ y >= 1 /\ y < g.height - 1
    IN  [width |-> g.width, height |-> g.height,
         pixels |-> [y \in 0..(g.height - 1) |->
                       [x \in 0..(g.width - 1) |->
                          IF /\ inner(x, y)
                             /\ magnitude_exceeds(gx(x, y) * gx(x, y)
                                                  + gy(x, y) * gy(x, y), t)
                          THEN 1 ELSE 0]]]

\* detect_edges_simple applying the default of its own parameter (30)
\* whatever threshold it is called with.
detect_edges_simple_own_default(g, t) ==
    LET P(x, y) == gray_get_pixel(g, x, y)
        diff(x, y) == Max(Abs(P(x, y) - P(x + 1, y)), Abs(P(x, y) - P(x, y + 1)))
    IN  [width |-> g.width, height |-> g.height,
         pixels |-> [y \in 0..(g.height - 1) |->
                       [x \in 0..(g.width - 1) |->
                          IF x < g.width - 1 /\ y < g.height - 1 /\ diff(x, y) > 30
                          THEN 1 ELSE 0]]]

\* EdgeDetector.detect_edges_simple: difference to the right and lower
\* neighbour, over all pixels but the last row and column.
detect_edges_simple(g, t) ==
    LET P(x, y) == gray_get_pixel(g, x, y)
        diff(x, y) == Max(Abs(P(x, y) - P(x + 1, y)), Abs(P(x, y) - P(x, y + 1)))
    IN  [width |-> g.width, height |-> g.height,
         pixels |-> [y \in 0..(g.height - 1) |->
                       [x \in 0..(g.width - 1) |->
                          IF x < g.width - 1 /\ y < g.height - 1 /\ diff(x, y) > t
                          THEN 1 ELSE 0]]]

\* load_image dropping the image it holds when the file fails to load.
load_image_forgetting ==
    IF mode \in {"edge", "edge_simple"}
    THEN \E r \in {GrayscaleImage_from_file(file)} :
            /\ decoded_by' = r.by
            /\ printed' = r.error
            /\ gray_image' = IF r.ok THEN r.image ELSE gray_image
            /\ binary_image' =
                 IF ~r.ok THEN None
                 ELSE IF mode = "edge"
                      THEN <<detect_edges(r.image[1], edge_threshold)>>
                      ELSE <<detect_edges_simple(r.image[1], edge_threshold)>>
    ELSE \E r \in {BinaryImage_from_file(file, threshold, pil_installed)} :
            /\ decoded_by' = r.by
            /\ printed' = r.error
            /\ binary_image' = IF r.ok THEN r.image ELSE None
            /\ UNCHANGED gray_image

\* ImageVectorizer.load_image: the exception is caught and printed, and the
\* method returns whether there was none.
load_image ==
    IF mode \in {"edge", "edge_simple"}
    THEN \E r \in {GrayscaleImage_from_file(file)} :
            /\ decoded_by' = r.by
            /\ printed' = r.error
            /\ gray_image' = IF r.ok THEN r.image ELSE gray_image
            /\ binary_image' =
                 IF ~r.ok THEN binary_image
                 ELSE IF mode = "edge"
                      THEN <<detect_edges(r.image[1], edge_threshold)>>
                      ELSE <<detect_edges_simple(r.image[1], edge_threshold)>>
    ELSE \E r \in {BinaryImage_from_file(file, threshold, pil_installed)} :
            /\ decoded_by' = r.by
            /\ printed' = r.error
            /\ binary_image' = IF r.ok THEN r.image ELSE binary_image
            /\ UNCHANGED gray_image

\* set_output_bounds setting the offset before it looks for the image.
set_output_bounds_offset_first(x, y, width, height) ==
    IF binary_image = None
    THEN /\ raised' = "ValueError: Load image first"
         /\ output_offset' = <<x, y>>
         /\ UNCHANGED output_scale
    ELSE LET scale_x == <<width, binary_image[1].width>>
             scale_y == <<height, binary_image[1].height>>
         IN  /\ output_scale' = IF scale_x[1] * scale_y[2] <= scale_y[1] * scale_x[2]
                                THEN scale_x ELSE scale_y
             /\ output_offset' = <<x, y>>
             /\ raised' = "none"

\* ImageVectorizer.set_output_bounds: the scale is min(width / image.width,
\* height / image.height), kept as a fraction.
set_output_bounds(x, y, width, height) ==
    IF binary_image = None
    THEN /\ raised' = "ValueError: Load image first"
         /\ UNCHANGED outputVars
    ELSE LET scale_x == <<width, binary_image[1].width>>
             scale_y == <<height, binary_image[1].height>>
         IN  /\ output_scale' = IF scale_x[1] * scale_y[2] <= scale_y[1] * scale_x[2]
                                THEN scale_x ELSE scale_y
             /\ output_offset' = <<x, y>>
             /\ raised' = "none"

(***************************************************************************)
(* SpecCli: one call cli_vectorize(image_path, bg_json, options_json),     *)
(* stepped through the calls it makes on its ImageVectorizer.              *)
(***************************************************************************)
\* options.get(key, default)
Get(d, key, default) == IF key \in DOMAIN d THEN d[key] ELSE default

\* str(e) of an exception that reaches `except Exception as e` (line 1646).
str(e) ==
    IF e = "RecursionError" THEN <<"maximum recursion depth exceeded">>
    ELSE IF e = "ValueError: No image loaded" THEN <<"No image loaded">>
    ELSE <<"Load image first">>

\* The white CliW x CliH grayscale image with a bw x bh rectangle of the gray
\* value v in its top left corner.
GrayOf(bw, bh, v) ==
    [width |-> CliW, height |-> CliH,
     pixels |-> [y \in 0..(CliH - 1) |->
                   [x \in 0..(CliW - 1) |-> IF x < bw /\ y < bh THEN v ELSE 255]]]

\* The rectangle is black, or lighter than white by 40.
Grays == {GrayOf(bw, bh, v) : bw \in 0..CliW, bh \in 0..CliH, v \in {0, 215}}

Extensions == {"png", "jpg", "ppm", "gif"}

Files ==
    {[ext |-> e, ok |-> TRUE, gray |-> <<g>>] : e \in Extensions, g \in Grays}
    \cup {[ext |-> e, ok |-> FALSE, gray |-> <<>>] : e \in Extensions}

\* The option objects: every key given, valid or not, or none given, or the
\* mode and the two filters given and no threshold.
OptionSets ==
    [mode : {"binary", "edge", "edge_simple", "sobel"},
     threshold : {-1, 128},
     edge_threshold : {-1, 50},
     epsilon : {<<-1, 1>>, <<2, 1>>},
     min_length : {-1, 3},
     min_area : {-1, 16}]
    \cup {<<>>}
    \cup [mode : {"edge", "edge_simple"}, min_length : {3}, min_area : {1}]

Backgrounds ==
    {[x |-> 0, y |-> 0, width |-> 100, height |-> 100],
     [x |-> -73, y |-> -77, width |-> 178, height |-> 100]}

InitCli ==
    /\ DpIdle
    /\ OtherIdle
    /\ VecIdle
    /\ PngIdle
    /\ JpgIdle
    /\ file \in Files
    /\ pil_installed \in BOOLEAN
    /\ options \in OptionSets
    /\ bg \in Backgrounds
    /\ cli_pc = "entry"
    /\ cli_result = [none |-> TRUE]

\* Lines 1617-1625: the new ImageVectorizer takes the options as given.
CliConfigure ==
    /\ cli_pc = "entry"
    /\ mode' = Get(options, "mode", "binary")
    /\ threshold' = Get(options, "threshold", 128)
    /\ edge_threshold' = Get(options, "edge_threshold", 50)
    /\ simplify_epsilon' = Get(options, "epsilon", <<2, 1>>)
    /\ min_contour_length' = Get(options, "min_length", 10)
    /\ min_component_area' = Get(options, "min_area", 16)
    /\ cli_pc' = "configured"
    /\ UNCHANGED <<dpVars, binary_image, outputVars, resultVars, calls, raised,
                   mcp_result, loadVars, file, pil_installed, options, bg,
                   cli_result>>
    /\ UNCHANGED <<decoderVars, otherVars>>

\* Lines 1628-1629.
CliLoadImage ==
    /\ cli_pc = "configured"
    /\ load_image
    /\ calls' = calls \cup {"load_image"}
    /\ IF binary_image' = None
       THEN /\ cli_result' = [error |-> <<"Failed to load image: ", "image.", file.ext>>]
            /\ cli_pc' = "returned"
       ELSE /\ cli_pc' = "loaded"
            /\ UNCHANGED cli_result
    /\ UNCHANGED <<dpVars, configVars, outputVars, resultVars, raised, mcp_result,
                   file, pil_installed, options, bg>>
    /\ UNCHANGED <<decoderVars, otherVars>>

\* Lines 1632-1635.
CliSetOutputBounds ==
    /\ cli_pc = "loaded"
    /\ set_output_bounds(bg.x, bg.y, bg.width, bg.height)
    /\ calls' = calls \cup {"set_output_bounds"}
    /\ cli_pc' = "bounded"
    /\ UNCHANGED <<dpVars, binary_image, configVars, resultVars, mcp_result,
                   loadVars, file, pil_installed, options, bg, cli_result>>
    /\ UNCHANGED <<decoderVars, otherVars>>

\* Line 1638, and line 1647 when vectorize raises.
CliVectorize ==
    /\ cli_pc = "bounded"
    /\ vectorize
    /\ calls' = calls \cup {"vectorize"}
    /\ IF raised' # "none"
       THEN /\ cli_result' = [error |-> str(raised')]
            /\ cli_pc' = "returned"
       ELSE /\ cli_pc' = "vectorized"
            /\ UNCHANGED cli_result
    /\ UNCHANGED <<dpVars, binary_image, configVars, outputVars, mcp_result,
                   loadVars, file, pil_installed, options, bg>>
    /\ UNCHANGED <<decoderVars, otherVars>>

\* Lines 1641-1644.
CliGenerate ==
    /\ cli_pc = "vectorized"
    /\ mcp_result' = generate_mcp_sequence(lines, Get(options, "layer", "TRACE"))
    /\ cli_result' = mcp_result'
    /\ calls' = calls \cup {"generate_mcp_sequence"}
    /\ raised' = "none"
    /\ cli_pc' = "returned"
    /\ UNCHANGED <<dpVars, binary_image, configVars, outputVars, resultVars,
                   loadVars, file, pil_installed, options, bg>>
    /\ UNCHANGED <<decoderVars, otherVars>>

NextCli ==
    CliConfigure \/ CliLoadImage \/ CliSetOutputBounds \/ CliVectorize \/ CliGenerate

SpecCli == InitCli /\ [][NextCli]_vars

\* A message names the supported set when one of its pieces is the list.
NamesSupportedSet(message) ==
    \E i \in 1..Len(message) : message[i] = SupportedText

\* The option values the documentation of cli_vectorize does not allow.
OptionsInvalid(o) ==
    \/ Get(o, "mode", "binary") \notin {"binary", "edge", "edge_simple"}
    \/ Get(o, "threshold", 128) < 0
    \/ Get(o, "edge_threshold", 50) < 0
    \/ Get(o, "epsilon", <<2, 1>>)[1] < 0
    \/ Get(o, "min_length", 10) < 0
    \/ Get(o, "min_area", 16) < 0

\* C6: a call of cli_vectorize whose options hold an invalid value never
\* calls load_image, hands the file to no decoder and runs no vectorize();
\* what it returns is an error object.
C6_InvalidOptionsRejectedAtEntry ==
    OptionsInvalid(options) =>
        /\ "load_image" \notin calls
        /\ "vectorize" \notin calls
        /\ decoded_by = "none"
        /\ binary_image = None
        /\ (cli_pc = "returned" => IsError(cli_result))

LoadReturned == "load_image" \in calls

\* C7 as stated: once load_image has returned for a file whose extension is
\* not a supported one, in every mode no image is loaded, no decoder was
\* handed the file, and the error names the supported set.
C7_UnsupportedExtensionFails ==
    (LoadReturned /\ file.ext \notin SUPPORTED) =>
        /\ binary_image = None
        /\ gray_image = None
        /\ decoded_by = "none"
        /\ NamesSupportedSet(printed)

\* C7 amended: for a file whose extension is not a supported one, in the edge
\* modes, and in binary mode without Pillow, load_image fails with no decoder
\* handed the file, the exception it prints names the supported set, and
\* cli_vectorize returns "Failed to load image: <path>"; in binary mode with
\* Pillow the file is handed to PIL and is loaded exactly when PIL opens it.
C7_UnsupportedExtensionFailsWithoutPillow ==
    (LoadReturned /\ file.ext \notin SUPPORTED) =>
        IF mode \in {"edge", "edge_simple"} \/ ~pil_installed
        THEN /\ binary_image = None
             /\ gray_image = None
             /\ decoded_by = "none"
             /\ NamesSupportedSet(printed)
             /\ cli_pc = "returned"
             /\ cli_result = [error |-> <<"Failed to load image: ", "image.", file.ext>>]
             /\ ~NamesSupportedSet(cli_result.error)
        ELSE /\ decoded_by = "PIL"
             /\ gray_image = None
             /\ (binary_image # None) <=> file.ok

\* C7 witness: an edge-mode call on a .gif has failed naming the set.
C7_Witness ==
    /\ LoadReturned
    /\ file.ext = "gif"
    /\ mode = "edge"
    /\ cli_pc = "returned"
    /\ NamesSupportedSet(printed)

(***************************************************************************)
(* PNGDecoder.  A file is the sequence of its bytes (0..255); a Python     *)
(* slice data[a:b] is Slice(data, a, b), positions counted from 0.         *)
(***************************************************************************)
Slice(s, a, b) == SubSeq(s, a + 1, Min(b, Len(s)))

PNG_SIGNATURE == <<137, 80, 78, 71, 13, 10, 26, 10>>

\* The chunk types, in ASCII.
IHDR == <<73, 72, 68, 82>>
PLTE == <<80, 76, 84, 69>>
IDAT == <<73, 68, 65, 84>>
IEND == <<73, 69, 78, 68>>

\* struct.pack('>I', n) for n < 2^24, and struct.unpack('>I', b)[0].
pack_I(n) == <<0, (n \div 65536) % 256, (n \div 256) % 256, n % 256>>

unpack_I(b) == ((b[1] * 256 + b[2]) * 256 + b[3]) * 256 + b[4]

\* Bitwise exclusive or of two bytes, and of two 4-byte words.
RECURSIVE XorBits(_, _, _)
XorBits(a, b, n) ==
    IF n = 0 THEN 0
    ELSE ((a + b) % 2) + 2 * XorBits(a \div 2, b \div 2, n - 1)

Xor8(a, b) == XorBits(a, b, 8)

XorW(a, b) == [i \in 1..4 |-> Xor8(a[i], b[i])]

\* CRC-32 of a chunk's type and payload (the 4 bytes that close the chunk),
\* kept as 4 bytes, most significant first.
Shr1(c) ==
    <<c[1] \div 2,
      (c[1] % 2) * 128 + (c[2] \div 2),
      (c[2] % 2) * 128 + (c[3] \div 2),
      (c[3] % 2) * 128 + (c[4] \div 2)>>

RECURSIVE crc_bits(_, _)
crc_bits(c, n) ==
    IF n = 0 THEN c
    ELSE crc_bits(IF c[4] % 2 = 1 THEN XorW(Shr1(c), <<237, 184, 131, 32>>)
                  ELSE Shr1(c), n - 1)

RECURSIVE crc_loop(_, _, _)
crc_loop(c, s, i) ==
    IF i > Len(s) THEN c
    ELSE LET next == crc_bits(<<c[1], c[2], c[3], Xor8(c[4], s[i])>>, 8)
         IN  IF Len(next) = 4 THEN crc_loop(next, s, i + 1) ELSE next

crc32(s) == XorW(crc_loop(<<255, 255, 255, 255>>, s, 1), <<255, 255, 255, 255>>)

\* One chunk: length (4) + type (4) + data + crc (4)  (line 72).
Chunk(type, payload) ==
    pack_I(Len(payload)) \o type \o payload \o crc32(type \o payload)

\* Adler-32 of the inflated data, as the pair <<b, a>> of its 16-bit halves.
RECURSIVE adler_loop(_, _, _, _)
adler_loop(s, i, a, b) ==
    IF i > Len(s) THEN <<b, a>>
    ELSE LET a2 == (a + s[i]) % 65521
             b2 == (b + a2) % 65521
         IN  IF a2 >= 0 /\ b2 >= 0 THEN adler_loop(s, i + 1, a2, b2) ELSE <<b2, a2>>

adler32(s) == adler_loop(s, 1, 1, 0)

\* zlib.compress(raw, 0): the zlib header, one final stored block, Adler-32.
zlib_store(raw) ==
    LET n == Len(raw)
        ad == adler32(raw)
    IN  <<120, 1>>
        \o <<1, n % 256, n \div 256, 255 - (n % 256), 255 - (n \div 256)>>
        \o raw
        \o <<ad[1] \div 256, ad[1] % 256, ad[2] \div 256, ad[2] % 256>>

\* The stored blocks of a deflate stream from position pos on:
\* [ok, data, pos] with pos the position after the final block.
RECURSIVE inflate_stored(_, _, _)
inflate_stored(s, pos, out) ==
    IF pos + 5 > Len(s) THEN [ok |-> FALSE, data |-> out, pos |-> pos]
    ELSE LET hdr == s[pos + 1]
             n == s[pos + 2] + 256 * s[pos + 3]
             nn == s[pos + 4] + 256 * s[pos + 5]
         IN  IF (hdr \div 2) % 4 # 0 \/ n + nn # 65535 \/ pos + 5 + n > Len(s)
             THEN [ok |-> FALSE, data |-> out, pos |-> pos]
             ELSE IF hdr % 2 = 1
             THEN [ok |-> TRUE, data |-> out \o Slice(s, pos + 5, pos + 5 + n),
                   pos |-> pos + 5 + n]
             ELSE inflate_stored(s, pos + 5 + n, out \o Slice(s, pos + 5, pos + 5 + n))

\* zlib.decompress (line 108) on a stream of stored blocks: the inflated
\* bytes, or zlib.error on a bad header, a stream that ends early or a wrong
\* checksum; bytes after the checksum are ignored.
zlib_decompress(s) ==
    IF \/ Len(s) < 2
       \/ s[1] % 16 # 8
       \/ s[1] \div 16 > 7
       \/ (s[1] * 256 + s[2]) % 31 # 0
       \/ (s[2] \div 32) % 2 # 0
    THEN [ok |-> FALSE, data |-> <<>>]
    ELSE LET r == inflate_stored(s, 2, <<>>)
             ad == adler32(r.data)
         IN  IF /\ r.ok
                /\ r.pos + 4 <= Len(s)
                /\ s[r.pos + 1] * 256 + s[r.pos + 2] = ad[1]
                /\ s[r.pos + 3] * 256 + s[r.pos + 4] = ad[2]
             THEN [ok |-> TRUE, data |-> r.data]
             ELSE [ok |-> FALSE, data |-> <<>>]

\* _paeth_predictor
\* _paeth_predictor comparing the signed differences (no abs).
paeth_predictor_signed(a, b, c) ==
    LET p == a + b - c
        pa == p - a
        pb == p - b
        pc == p - c
    IN  IF pa <= pb /\ pa <= pc THEN a
        ELSE IF pb <= pc THEN b
        ELSE c

paeth_predictor(a, b, c) ==
    LET p == a + b - c
        pa == Abs(p - a)
        pb == Abs(p - b)
        pc == Abs(p - c)
    IN  IF pa <= pb /\ pa <= pc THEN a
        ELSE IF pb <= pc THEN b
        ELSE c

\* The loops of _unfilter_row over i (result is rewritten in place).
RECURSIVE unfilter_loop(_, _, _, _, _)
unfilter_loop(filter_type, result, prev_row, bpp, i) ==
    IF i > Len(result) THEN result
    ELSE LET left == IF i - 1 >= bpp THEN result[i - bpp] ELSE 0
             up == prev_row[i]
             up_left == IF i - 1 >= bpp THEN prev_row[i - bpp] ELSE 0
             v == IF filter_type = 1
                  THEN IF i - 1 >= bpp THEN (result[i] + left) % 256 ELSE result[i]
                  ELSE IF filter_type = 2 THEN (result[i] + up) % 256
                  ELSE IF filter_type = 3
                  THEN (result[i] + (left + up) \div 2) % 256
                  ELSE (result[i] + paeth_predictor(left, up, up_left)) % 256
         IN  unfilter_loop(filter_type, [result EXCEPT ![i] = v], prev_row, bpp, i + 1)

\* _unfilter_row undoing Up (type 2) the way it undoes Sub.
unfilter_row_up_as_sub(filter_type, row, prev_row, bpp) ==
    IF filter_type \in 1..4
    THEN unfilter_loop(IF filter_type = 2 THEN 1 ELSE filter_type, row, prev_row, bpp, 1)
    ELSE row

\* _unfilter_row
unfilter_row(filter_type, row, prev_row, bpp) ==
    IF filter_type \in 1..4 THEN unfilter_loop(filter_type, row, prev_row, bpp, 1)
    ELSE row

\* The channels of a colour type (line 111).
channels_of(color_type) ==
    IF color_type = 2 THEN 3
    ELSE IF color_type = 4 THEN 2
    ELSE IF color_type = 6 THEN 4
    ELSE 1

\* _bytes_to_pixels for bit depth 8 and the colour types without a palette:
\* each pixel the tuple of its channel bytes.
bytes_to_pixels(row_data, channels) ==
    [k \in 1..(Len(row_data) \div channels) |->
        SubSeq(row_data, (k - 1) * channels + 1, k * channels)]

\* The row loop of _decode_image_data: [ok, pixels]; ok is FALSE when
\* raw_data[pos] is past the end (IndexError).
RECURSIVE decode_rows(_, _, _, _, _, _, _, _)
decode_rows(raw_data, pos, prev_row, y, height, scanline_width, bpp, channels) ==
    IF y >= height THEN [ok |-> TRUE, pixels |-> <<>>]
    ELSE IF pos >= Len(raw_data) THEN [ok |-> FALSE, pixels |-> <<>>]
    ELSE LET filter_type == raw_data[pos + 1]
             row_data == unfilter_row(filter_type,
                                      Slice(raw_data, pos + 1, pos + 1 + scanline_width),
                                      prev_row, bpp)
             rest == decode_rows(raw_data, pos + 1 + scanline_width, row_data, y + 1,
                                 height, scanline_width, bpp, channels)
         IN  [ok |-> rest.ok,
              pixels |-> <<bytes_to_pixels(row_data, channels)>> \o rest.pixels]

\* _decode_image_data: [error, pixels], error "none" when it returns.
decode_image_data(compressed_data, header) ==
    LET z == zlib_decompress(compressed_data)
        channels == channels_of(header.color_type)
        bytes_per_pixel == Max(1, (header.bit_depth * channels + 7) \div 8)
        scanline_width == header.width * bytes_per_pixel
        rows == decode_rows(z.data, 0, [i \in 1..scanline_width |-> 0], 0,
                            header.height, scanline_width, bytes_per_pixel, channels)
    IN  IF ~z.ok THEN [error |-> "zlib.error", pixels |-> <<>>]
        ELSE IF ~rows.ok THEN [error |-> "IndexError", pixels |-> rows.pixels]
        ELSE [error |-> "none", pixels |-> rows.pixels]

(***************************************************************************)
(* SpecPng: PNGDecoder().decode_bytes(data), stepped through its chunk     *)
(* loop, on the stored-deflate 8-bit grayscale files of PngW x PngH pixels *)
(* and on each such file with one defect: a changed signature byte, the    *)
(* interlace flag set, or the bytes from one position on cut off.          *)
(***************************************************************************)
\* The 13 bytes of an IHDR chunk for 8-bit grayscale.
IhdrBytes(width, height, interlace) ==
    pack_I(width) \o pack_I(height) \o <<8, 0, 0, 0, interlace>>

\* The inflated image data: each scanline its filter byte and its bytes.
RECURSIVE RawData(_)
RawData(scanlines) ==
    IF scanlines = <<>> THEN <<>>
    ELSE <<Head(scanlines).filter_type>> \o Head(scanlines).bytes
         \o RawData(Tail(scanlines))

\* The file: signature, IHDR, the zlib stream in one IDAT chunk or cut into
\* two after its split-th byte, IEND.
PngFile(scanlines, interlace, split) ==
    LET z == zlib_store(RawData(scanlines))
    IN  PNG_SIGNATURE
        \o Chunk(IHDR, IhdrBytes(PngW, PngH, interlace))
        \o (IF split = 0 THEN Chunk(IDAT, z)
            ELSE Chunk(IDAT, SubSeq(z, 1, split))
                 \o Chunk(IDAT, SubSeq(z, split + 1, Len(z))))
        \o Chunk(IEND, <<>>)

\* The scanlines of the files: one filter type for all rows of a file.
Scanlines ==
    {[y \in 1..PngH |-> [filter_type |-> ft, bytes |-> rows[y]]] :
        ft \in 0..4, rows \in [1..PngH -> [1..PngW -> {0, 255}]]}

InitPng ==
    /\ DpIdle
    /\ OtherIdle
    /\ VecIdle
    /\ CliIdle
    /\ JpgIdle
    /\ \E scanlines \in Scanlines : \E split \in {0, PngSplit} :
       \E good \in {PngFile(scanlines, 0, split)} :
          \/ /\ png_defect = "none"
             /\ png_data = good
          \/ /\ png_defect = "signature"
             /\ \E i \in 1..8 :
                   png_data = [good EXCEPT ![i] = (good[i] + 1) % 256]
          \/ /\ png_defect = "interlace"
             /\ png_data = PngFile(scanlines, 1, split)
          \/ /\ png_defect = "truncated"
             /\ \E k \in 0..(Len(good) - 1) : png_data = SubSeq(good, 1, k)
    /\ png_pos = 0
    /\ png_idat = <<>>
    /\ png_header = NoHeader
    /\ png_palette = <<>>
    /\ png_pixels = <<>>
    /\ png_pc = "start"
    /\ png_raised = "none"

\* Lines 65-69.
PngSignature ==
    /\ png_pc = "start"
    /\ IF Slice(png_data, 0, 8) # PNG_SIGNATURE
       THEN /\ png_raised' = "ValueError: Invalid PNG signature"
            /\ png_pc' = "raised"
            /\ UNCHANGED png_pos
       ELSE /\ png_pos' = 8
            /\ png_pc' = "chunks"
            /\ UNCHANGED png_raised
    /\ UNCHANGED <<png_data, png_defect, png_idat, png_header, png_palette,
                   png_pixels>>
    /\ UNCHANGED <<dpVars, vecVars, loadVars, cliVars, jpgVars, otherVars>>

\* _parse_ihdr: the header it leaves and the exception it raises, if any.
parse_ihdr(data) ==
    IF Len(data) # 13
    THEN [header |-> NoHeader, error |-> "struct.error"]
    ELSE LET h == [width |-> unpack_I(SubSeq(data, 1, 4)),
                   height |-> unpack_I(SubSeq(data, 5, 8)),
                   bit_depth |-> data[9], color_type |-> data[10],
                   compression |-> data[11], filter_method |-> data[12],
                   interlace |-> data[13]]
         IN  [header |-> h,
              error |-> IF h.interlace # 0
                        THEN "NotImplementedError: Adam7 interlacing not supported"
                        ELSE "none"]

\* _parse_plte
parse_plte(data) ==
    IF Len(data) % 3 # 0
    THEN [palette |-> <<>>, error |-> "IndexError"]
    ELSE [palette |-> [i \in 1..(Len(data) \div 3) |-> SubSeq(data, 3 * i - 2, 3 * i)],
          error |-> "none"]

\* One pass of the chunk loop (lines 71-85).
PngChunk ==
    /\ png_pc = "chunks"
    /\ png_pos < Len(png_data)
    /\ IF Len(Slice(png_data, png_pos, png_pos + 4)) < 4
       THEN /\ png_raised' = "struct.error"
            /\ png_pc' = "raised"
            /\ UNCHANGED <<png_pos, png_idat, png_header, png_palette>>
       ELSE LET length == unpack_I(Slice(png_data, png_pos, png_pos + 4))
                chunk_type == Slice(png_data, png_pos + 4, png_pos + 8)
                chunk_data == Slice(png_data, png_pos + 8, png_pos + 8 + length)
            IN  IF \E i \in 1..Len(chunk_type) : chunk_type[i] >= 128
                THEN /\ png_raised' = "UnicodeDecodeError"
                     /\ png_pc' = "raised"
                     /\ UNCHANGED <<png_pos, png_idat, png_header, png_palette>>
                ELSE /\ png_pos' = png_pos + 12 + length
                     /\ png_idat' = IF chunk_type = IDAT THEN png_idat \o chunk_data
                                    ELSE png_idat
                     /\ png_header' = IF chunk_type = IHDR
                                      THEN parse_ihdr(chunk_data).header
                                      ELSE png_header
                     /\ png_palette' = IF chunk_type = PLTE
                                       THEN parse_plte(chunk_data).palette
                                       ELSE png_palette
                     /\ png_raised' = IF chunk_type = IHDR
                                      THEN parse_ihdr(chunk_data).error
                                      ELSE IF chunk_type = PLTE
                                      THEN parse_plte(chunk_data).error
                                      ELSE "none"
                     /\ png_pc' = IF png_raised' # "none" THEN "raised"
                                  ELSE IF chunk_type = IEND THEN "image_data"
                                  ELSE "chunks"
    /\ UNCHANGED <<png_data, png_defect, png_pixels>>
    /\ UNCHANGED <<dpVars, vecVars, loadVars, cliVars, jpgVars, otherVars>>

\* Lines 87-89, reached by IEND or by the end of the data.
PngDecodeImageData ==
    /\ \/ png_pc = "image_data"
       \/ png_pc = "chunks" /\ png_pos >= Len(png_data)
    /\ \E r \in {decode_image_data(png_idat, png_header)} :
          /\ png_pixels' = r.pixels
          /\ png_raised' = r.error
          /\ png_pc' = IF r.error = "none" THEN "returned" ELSE "raised"
    /\ UNCHANGED <<png_data, png_defect, png_pos, png_idat, png_header, png_palette>>
    /\ UNCHANGED <<dpVars, vecVars, loadVars, cliVars, jpgVars, otherVars>>

NextPng == PngSignature \/ PngChunk \/ PngDecodeImageData

SpecPng == InitPng /\ [][NextPng]_vars

\* C3: decode_bytes never returns a decoder for a file with a wrong
\* signature, with the interlace flag set, or cut off at any byte position;
\* for such a file it raises, and no pixel rows are held.
C3_MalformedPngNeverDecoded ==
    png_defect \in {"signature", "interlace", "truncated"} =>
        /\ png_pc # "returned"
        /\ png_pixels = <<>>

(***************************************************************************)
(* JPEGDecoder.  A dictionary is a function; (code, length) keys are       *)
(* pairs.  The bit reader is [scan_pos, bit_buffer, bits_left] with two    *)
(* flags that record which of its `return 0` lines a read went through:    *)
(* exhausted (line 574, the scan data had ended) and unmatched (line 568,  *)
(* no Huffman code matched within 16 bits).                                *)
(***************************************************************************)
ZIGZAG ==
    << 0,  1,  8, 16,  9,  2,  3, 10,
      17, 24, 32, 25, 18, 11,  4,  5,
      12, 19, 26, 33, 40, 48, 41, 34,
      27, 20, 13,  6,  7, 14, 21, 28,
      35, 42, 49, 56, 57, 50, 43, 36,
      29, 22, 15, 23, 30, 37, 44, 51,
      58, 59, 52, 45, 38, 31, 39, 46,
      53, 60, 61, 54, 47, 55, 62, 63>>

\* struct.unpack('>H', b)[0]
unpack_H(b) == b[1] * 256 + b[2]

\* d[k] = v on a dictionary.
DictSet(d, k, v) == [x \in DOMAIN d \cup {k} |-> IF x = k THEN v ELSE d[x]]

Ok(fields) == [ok |-> TRUE, error |-> "none"] @@ fields

Err(error, fields) == [ok |-> FALSE, error |-> error] @@ fields

\* The 64 entries of one table of _parse_dqt, by precision, or <<>> when the
\* data is too short for them.
dqt_entries(data, pos, precision) ==
    IF precision = 0
    THEN IF pos + 64 <= Len(data) THEN Slice(data, pos, pos + 64) ELSE <<>>
    ELSE IF pos + 128 <= Len(data)
         THEN [i \in 1..64 |-> unpack_H(Slice(data, pos + 2 * (i - 1), pos + 2 * i))]
         ELSE <<>>

\* _parse_dqt: [ok, error, quant_tables].
RECURSIVE parse_dqt(_, _, _)
parse_dqt(data, pos, quant_tables) ==
    IF pos >= Len(data) THEN Ok([quant_tables |-> quant_tables])
    ELSE LET info == data[pos + 1]
             precision == (info \div 16) % 16
             table_id == info % 16
             table == dqt_entries(data, pos + 1, precision)
             unzigzag == [j \in 1..64 |->
                            table[CHOOSE i \in 1..64 : ZIGZAG[i] = j - 1]]
         IN  IF table = <<>>
             THEN Err(IF precision = 0 THEN "IndexError" ELSE "struct.error",
                      [quant_tables |-> quant_tables])
             ELSE parse_dqt(data, pos + 1 + (IF precision = 0 THEN 64 ELSE 128),
                            DictSet(quant_tables, table_id, unzigzag))

\* _parse_sof0: [ok, error, width, height, components].
parse_sof0(data) ==
    LET none == [width |-> 0, height |-> 0, components |-> <<>>]
    IN  IF Len(data) = 0 THEN Err("IndexError", none)
        ELSE IF Len(data) < 5 THEN Err("struct.error", none)
        ELSE IF Len(data) < 6 \/ Len(data) < 6 + 3 * data[6] THEN Err("IndexError", none)
        ELSE Ok([height |-> unpack_H(SubSeq(data, 2, 3)),
                 width |-> unpack_H(SubSeq(data, 4, 5)),
                 components |->
                    [i \in 1..data[6] |->
                        [id |-> data[7 + (i - 1) * 3],
                         h_sampling |-> (data[8 + (i - 1) * 3] \div 16) % 16,
                         v_sampling |-> data[8 + (i - 1) * 3] % 16,
                         quant_table |-> data[9 + (i - 1) * 3]]]])

RECURSIVE Sum(_)
Sum(s) == IF s = <<>> THEN 0 ELSE Head(s) + Sum(Tail(s))

\* _build_huffman_table: the dictionary (code, length) -> symbol.
RECURSIVE build_huffman_table(_, _, _, _, _, _, _)
build_huffman_table(counts, symbols, length, n, code, symbol_idx, table) ==
    IF length > 16 THEN table
    ELSE IF n < counts[length]
    THEN build_huffman_table(counts, symbols, length, n + 1, code + 1, symbol_idx + 1,
                             DictSet(table, <<code, length>>, symbols[symbol_idx + 1]))
    ELSE build_huffman_table(counts, symbols, length + 1, 0, code * 2, symbol_idx, table)

\* _parse_dht: [ok, error, huffman_dc, huffman_ac].
RECURSIVE parse_dht(_, _, _, _)
parse_dht(data, pos, huffman_dc, huffman_ac) ==
    IF pos >= Len(data)
    THEN Ok([huffman_dc |-> huffman_dc, huffman_ac |-> huffman_ac])
    ELSE LET info == data[pos + 1]
             table_class == (info \div 16) % 16
             table_id == info % 16
             counts == Slice(data, pos + 1, pos + 17)
             nsym == Sum(counts)
             symbols == Slice(data, pos + 17, pos + 17 + nsym)
             table == build_huffman_table(counts, symbols, 1, 0, 0, 0, <<>>)
         IN  IF Len(counts) < 16 \/ Len(symbols) < nsym
             THEN Err("IndexError", [huffman_dc |-> huffman_dc, huffman_ac |-> huffman_ac])
             ELSE IF table_class = 0
             THEN parse_dht(data, pos + 17 + nsym, DictSet(huffman_dc, table_id, table),
                            huffman_ac)
             ELSE parse_dht(data, pos + 17 + nsym, huffman_dc,
                            DictSet(huffman_ac, table_id, table))

\* _extract_scan_data: the scan bytes with byte stuffing and RST markers
\* removed, up to EOI.
RECURSIVE extract_scan_data(_, _)
extract_scan_data(data, i) ==
    IF i >= Len(data) THEN <<>>
    ELSE IF data[i + 1] = 255 /\ i + 1 < Len(data) /\ data[i + 2] = 0
    THEN <<255>> \o extract_scan_data(data, i + 2)
    ELSE IF data[i + 1] = 255 /\ i + 1 < Len(data) /\ data[i + 2] = 217
    THEN <<>>
    ELSE IF data[i + 1] = 255 /\ i + 1 < Len(data) /\ data[i + 2] \in 208..215
    THEN extract_scan_data(data, i + 2)
    ELSE <<data[i + 1]>> \o extract_scan_data(data, i + 1)

\* _read_bit: [bit, r].
read_bit(scan_data, r) ==
    IF r.bits_left = 0 /\ r.scan_pos >= Len(scan_data)
    THEN [bit |-> 0, r |-> [r EXCEPT !.exhausted = TRUE]]
    ELSE LET loaded == IF r.bits_left = 0
                       THEN [r EXCEPT !.bit_buffer = scan_data[r.scan_pos + 1],
                                      !.scan_pos = r.scan_pos + 1,
                                      !.bits_left = 8]
                       ELSE r
             left == loaded.bits_left - 1
         IN  [bit |-> (loaded.bit_buffer \div (2 ^ left)) % 2,
              r |-> [loaded EXCEPT !.bits_left = left]]

\* _read_bits: [value, r].
RECURSIVE read_bits(_, _, _, _)
read_bits(scan_data, r, n, value) ==
    IF n = 0 THEN [value |-> value, r |-> r]
    ELSE LET b == read_bit(scan_data, r)
         IN  read_bits(scan_data, b.r, n - 1, 2 * value + b.bit)

\* _decode_huffman: [symbol, r].
RECURSIVE decode_huffman(_, _, _, _, _)
decode_huffman(scan_data, r, table, code, length) ==
    IF length > 16 THEN [symbol |-> 0, r |-> [r EXCEPT !.unmatched = TRUE]]
    ELSE LET b == read_bit(scan_data, r)
             c == 2 * code + b.bit
         IN  IF <<c, length>> \in DOMAIN table
             THEN [symbol |-> table[<<c, length>>], r |-> b.r]
             ELSE decode_huffman(scan_data, b.r, table, c, length + 1)

\* The value of `category` bits read as a signed coefficient (lines 519-521,
\* 545-547): [value, r].
read_coefficient(scan_data, r, category) ==
    LET v == read_bits(scan_data, r, category, 0)
    IN  [value |-> IF v.value < 2 ^ (category - 1)
                   THEN v.value - (2 ^ category - 1)
                   ELSE v.value,
         r |-> v.r]

\* The AC loop of _decode_block (lines 527-549): [block, r].
RECURSIVE decode_ac(_, _, _, _, _)
decode_ac(scan_data, r, ac_table, block, i) ==
    IF i >= 64 THEN [block |-> block, r |-> r]
    ELSE LET h == decode_huffman(scan_data, r, ac_table, 0, 1)
             run_length == (h.symbol \div 16) % 16
             category == h.symbol % 16
             v == read_coefficient(scan_data, h.r, category)
         IN  IF h.symbol = 0 THEN [block |-> block, r |-> h.r]
             ELSE IF h.symbol = 240
             THEN decode_ac(scan_data, h.r, ac_table, block, i + 16)
             ELSE IF i + run_length >= 64 THEN [block |-> block, r |-> h.r]
             ELSE IF category > 0
             THEN decode_ac(scan_data, v.r, ac_table,
                            [block EXCEPT ![ZIGZAG[i + run_length + 1] + 1] = v.value],
                            i + run_length + 1)
             ELSE decode_ac(scan_data, h.r, ac_table, block, i + run_length + 1)

\* int(num / den) for den > 0: Python's int() truncates toward zero.
Trunc(num, den) == IF num >= 0 THEN num \div den ELSE 0 - ((0 - num) \div den)

\* 1024 cos(k pi / 16), rounded, for k = 0..8; CosTable extends it to any k.
COS16 == <<1024, 1004, 946, 851, 724, 569, 392, 200, 0>>

CosTable(k) ==
    LET m == k % 32
    IN  IF m <= 8 THEN COS16[m + 1]
        ELSE IF m <= 16 THEN 0 - COS16[16 - m + 1]
        ELSE IF m <= 24 THEN 0 - COS16[m - 16 + 1]
        ELSE COS16[32 - m + 1]

\* cu cos((2x + 1) u pi / 16), times 1024 (lines 599-602).
idct_basis(u, x) == IF u = 0 THEN 724 ELSE CosTable((2 * x + 1) * u)

\* The float product cu * cv for u = v = 0 is 0.5000000000000001, so for a
\* block with only block[0] = c the float sum c / 8 + 128 lies just below
\* the integer when c is a negative multiple of 8; from c = -384 down the
\* excess survives the rounding of the addition and int() drops to the
\* integer below.
idct_flat(c) ==
    IF c % 8 = 0 /\ c <= -384 /\ c > -1024
    THEN Trunc(c + 1024, 8) - 1
    ELSE Trunc(c + 1024, 8)

\* _idct.  A block whose AC coefficients are all 0 gives 64 times
\* int(0.5000000000000001 * block[0] / 4 + 128); any other block is summed
\* with the cosines in units of 1/1024, rows first, which can differ from
\* the float sum by one where it is near an integer.  Then the clipping.
idct(block) ==
    LET row(v, x) == Sum([u \in 1..8 |->
                            block[v * 8 + u] * idct_basis(u - 1, x)]) \div 64
        sum_val(x, y) == Sum([v \in 1..8 |-> row(v - 1, x) * idct_basis(v - 1, y)])
        value(x, y) ==
            IF \A i \in 2..64 : block[i] = 0
            THEN idct_flat(block[1])
            ELSE Trunc(sum_val(x, y) + 128 * 65536, 65536)
    IN  [i \in 1..64 |-> clamp(value((i - 1) % 8, (i - 1) \div 8))]

\* The tables a scan is decoded with.
Tables(components, quant_tables, huffman_dc, huffman_ac) ==
    [components |-> components, quant_tables |-> quant_tables,
     huffman_dc |-> huffman_dc, huffman_ac |-> huffman_ac]

\* _decode_block: [block, dc_pred, r].
decode_block(scan_data, r, tables, comp_idx, comp_info, dc_pred) ==
    LET dc_table == Get(tables.huffman_dc, comp_info.dc, <<>>)
        h == decode_huffman(scan_data, r, dc_table, 0, 1)
        diff == read_coefficient(scan_data, h.r, h.symbol)
        pred == IF h.symbol > 0 THEN dc_pred + diff.value ELSE dc_pred
        after_dc == IF h.symbol > 0 THEN diff.r ELSE h.r
        ac_table == Get(tables.huffman_ac, comp_info.ac, <<>>)
        ac == decode_ac(scan_data, after_dc, ac_table,
                        [i \in 1..64 |-> IF i = 1 THEN pred ELSE 0], 1)
        quant_table == Get(tables.quant_tables,
                           tables.components[comp_idx + 1].quant_table,
                           [i \in 1..64 |-> 1])
    IN  [block |-> idct([i \in 1..64 |-> ac.block[i] * quant_table[i]]),
         dc_pred |-> pred,
         r |-> ac.r]

\* The loops over v and h of lines 497-502 for one component: its n blocks
\* decoded one after the other: [comp_blocks, dc_pred, r].  comp_blocks_rest
\* is the loop after its first block b (line 502, the append).
RECURSIVE decode_comp_blocks(_, _, _, _, _, _, _)

comp_blocks_append(b, rest) ==
    [comp_blocks |-> <<b.block>> \o rest.comp_blocks,
     dc_pred |-> rest.dc_pred,
     r |-> rest.r]

comp_blocks_rest(scan_data, tables, ci, comp_info, n, b) ==
    comp_blocks_append(b, decode_comp_blocks(scan_data, b.r, tables, ci, comp_info,
                                             b.dc_pred, n - 1))

decode_comp_blocks(scan_data, r, tables, ci, comp_info, dc_pred, n) ==
    IF n = 0 THEN [comp_blocks |-> <<>>, dc_pred |-> dc_pred, r |-> r]
    ELSE comp_blocks_rest(scan_data, tables, ci, comp_info, n,
                          decode_block(scan_data, r, tables, ci, comp_info, dc_pred))

\* The loop over the components of one MCU (lines 494-503):
\* [ok, blocks, dc_pred, r]; ok is FALSE when comp_info[ci] is past the end of
\* the list the SOS header gave (IndexError).  mcu_blocks_next is the loop
\* after component ci, whose blocks are c (line 503, the append).
RECURSIVE decode_mcu_blocks(_, _, _, _, _, _, _)

mcu_blocks_next(scan_data, tables, comp_info, ci, dc_pred, blocks, c) ==
    decode_mcu_blocks(scan_data, c.r, tables, comp_info, ci + 1,
                      [dc_pred EXCEPT ![ci + 1] = c.dc_pred],
                      blocks \o <<c.comp_blocks>>)

decode_mcu_blocks(scan_data, r, tables, comp_info, ci, dc_pred, blocks) ==
    IF ci >= Len(tables.components)
    THEN [ok |-> TRUE, blocks |-> blocks, dc_pred |-> dc_pred, r |-> r]
    ELSE LET comp == tables.components[ci + 1]
             n == comp.v_sampling * comp.h_sampling
         IN  IF n > 0 /\ ci >= Len(comp_info)
             THEN [ok |-> FALSE, blocks |-> blocks, dc_pred |-> dc_pred, r |-> r]
             ELSE mcu_blocks_next(
                      scan_data, tables, comp_info, ci, dc_pred, blocks,
                      IF n = 0
                      THEN [comp_blocks |-> <<>>, dc_pred |-> dc_pred[ci + 1], r |-> r]
                      ELSE decode_comp_blocks(scan_data, r, tables, ci,
                                              comp_info[ci + 1], dc_pred[ci + 1], n))

\* YCbCr -> RGB (lines 645-651).
ycbcr_to_rgb(y, cb, cr) ==
    <<clamp(Trunc(1000 * y + 1402 * (cr - 128), 1000)),
      clamp(Trunc(1000000 * y - 344136 * (cb - 128) - 714136 * (cr - 128), 1000000)),
      clamp(Trunc(1000 * y + 1772 * (cb - 128), 1000))>>

\* _blocks_to_pixels: [ok, pixels]; ok is FALSE when a pixel of the MCU lies
\* in the image and a component has a sampling factor 0 (ZeroDivisionError).
blocks_to_pixels(pixels, blocks, mcu_x, mcu_y, mcu_width, mcu_height, components, width, height) ==
    LET inside(px, py) ==
            /\ px >= mcu_x * mcu_width /\ px < (mcu_x + 1) * mcu_width
            /\ py >= mcu_y * mcu_height /\ py < (mcu_y + 1) * mcu_height
        value(ci, bx, by) ==
            LET comp == components[ci]
                block_x == (bx \div 8) % comp.h_sampling
                block_y == (by \div 8) % comp.v_sampling
                block_idx == block_y * comp.h_sampling + block_x
            IN  IF block_idx < Len(blocks[ci])
                THEN blocks[ci][block_idx + 1][(by % 8) * 8 + (bx % 8) + 1]
                ELSE 128
        values(bx, by) == [ci \in 1..Len(components) |-> value(ci, bx, by)]
        pixel(px, py) ==
            LET vs == values(px - mcu_x * mcu_width, py - mcu_y * mcu_height)
            IN  IF Len(vs) >= 3 THEN ycbcr_to_rgb(vs[1], vs[2], vs[3])
                ELSE IF Len(vs) = 1 THEN <<vs[1], vs[1], vs[1]>>
                ELSE pixels[py + 1][px + 1]
    IN  IF /\ \E py \in 0..(height - 1) : \E px \in 0..(width - 1) : inside(px, py)
           /\ \E ci \in 1..Len(components) :
                 components[ci].h_sampling = 0 \/ components[ci].v_sampling = 0
        THEN [ok |-> FALSE, pixels |-> pixels]
        ELSE [ok |-> TRUE,
              pixels |-> [y \in 1..height |-> [x \in 1..width |->
                            IF inside(x - 1, y - 1) THEN pixel(x - 1, y - 1)
                            ELSE pixels[y][x]]]]

\* The SOS header (lines 459-466): [ok, error, comp_info].
parse_sos(sos_data) ==
    IF Len(sos_data) = 0 \/ Len(sos_data) < 1 + 2 * sos_data[1]
    THEN Err("IndexError", [comp_info |-> <<>>])
    ELSE Ok([comp_info |->
               [i \in 1..sos_data[1] |->
                   [id |-> sos_data[2 + (i - 1) * 2],
                    dc |-> (sos_data[3 + (i - 1) * 2] \div 16) % 16,
                    ac |-> sos_data[3 + (i - 1) * 2] % 16]]])

RECURSIVE MaxOf(_)
MaxOf(s) == IF Len(s) = 1 THEN s[1] ELSE Max(s[1], MaxOf(Tail(s)))

\* _decode_scan up to its try (lines 459-488): [ok, error, scan, pixels].
begin_scan(sos_data, scan_data, components, width, height) ==
    LET sos == parse_sos(sos_data)
        max_h == MaxOf([i \in 1..Len(components) |-> components[i].h_sampling])
        max_v == MaxOf([i \in 1..Len(components) |-> components[i].v_sampling])
        mcu_width == 8 * max_h
        mcu_height == 8 * max_v
    IN  IF ~sos.ok THEN Err(sos.error, [scan |-> NoScan, pixels |-> <<>>])
        ELSE IF components = <<>>
        THEN Err("ValueError: max() arg is an empty sequence",
                 [scan |-> NoScan, pixels |-> <<>>])
        ELSE IF max_h = 0 \/ max_v = 0
        THEN Err("ZeroDivisionError", [scan |-> NoScan, pixels |-> <<>>])
        ELSE Ok([scan |-> [scan_data |-> scan_data,
                           comp_info |-> sos.comp_info,
                           r |-> NewReader,
                           dc_pred |-> [i \in 1..Len(components) |-> 0],
                           mcu |-> 0,
                           mcus_x |-> (width + mcu_width - 1) \div mcu_width,
                           mcus_y |-> (height + mcu_height - 1) \div mcu_height,
                           mcu_width |-> mcu_width,
                           mcu_height |-> mcu_height],
                 pixels |-> [y \in 1..height |-> [x \in 1..width |-> <<0, 0, 0>>]]])

\* A handler that discards the image.
discard_decoded(pixels) == <<>>

\* The handler of line 507: what self.pixels is after it.
keep_decoded(pixels) == pixels

(***************************************************************************)
(* SpecJpeg: JPEGDecoder().decode_bytes(data), stepped through its marker  *)
(* loop and the MCU loop of _decode_scan, on one-component files of        *)
(* JpgMcus MCUs in a row: baseline (SOF0) or progressive (SOF2) frame      *)
(* header, with or without a scan, the scan whole, cut off after some      *)
(* byte, or run into a stretch of 1 bits no code matches, the SOS header   *)
(* naming the component or none.                                           *)
(***************************************************************************)
SOF0 == 192
SOF2 == 194

pack_H(n) == <<n \div 256, n % 256>>

Segment(marker, payload) == <<255, marker>> \o pack_H(Len(payload) + 2) \o payload

\* n bits of value, most significant first.
Bits(value, n) == [i \in 1..n |-> (value \div (2 ^ (n - i))) % 2]

\* The bits of one MCU whose block has only a DC coefficient, its difference
\* to the previous one being d: the code of the category (0, 10, 110 for the
\* categories 0, 1, 2), the bits of d, and the end-of-block code 0.
McuBits(d) ==
    LET category == IF d = 0 THEN 0 ELSE IF Abs(d) = 1 THEN 1 ELSE 2
    IN  [i \in 1..(category + 1) |-> IF i <= category THEN 1 ELSE 0]
        \o Bits(IF d > 0 THEN d ELSE d + 2 ^ category - 1, category)
        \o <<0>>

RECURSIVE ScanBits(_)
ScanBits(diffs) ==
    IF diffs = <<>> THEN <<>> ELSE McuBits(Head(diffs)) \o ScanBits(Tail(diffs))

\* The bits in bytes, the last byte filled with 1 bits, 0 stuffed after 255.
RECURSIVE PackBits(_)
PackBits(bits) ==
    IF bits = <<>> THEN <<>>
    ELSE LET byte == Sum([i \in 1..8 |->
                            (IF i <= Len(bits) THEN bits[i] ELSE 1) * 2 ^ (8 - i)])
             rest == IF Len(bits) <= 8 THEN <<>>
                     ELSE PackBits(SubSeq(bits, 9, Len(bits)))
         IN  (IF byte = 255 THEN <<255, 0>> ELSE <<byte>>) \o rest

JpgW == 8 * (JpgMcus - 1) + 1

DqtPayload == <<0>> \o [i \in 1..64 |-> 8]

SofPayload == <<8>> \o pack_H(JpgH) \o pack_H(JpgW) \o <<1, 1, 17, 0>>

DhtPayload ==
    <<0>> \o [i \in 1..16 |-> IF i <= 3 THEN 1 ELSE 0] \o <<0, 1, 2>>
    \o <<16>> \o [i \in 1..16 |-> IF i <= 2 THEN 1 ELSE 0] \o <<0, 240>>

SosPayload(ncomp) ==
    <<ncomp>> \o (IF ncomp = 1 THEN <<1, 0>> ELSE <<>>) \o <<0, 63, 0>>

\* The file f = [sof, has_scan, sos_ncomp, diffs, tail, cut].
JpegFile(f) ==
    LET scan == PackBits(ScanBits(f.diffs))
    IN  <<255, 216>>
        \o Segment(219, DqtPayload)
        \o Segment(f.sof, SofPayload)
        \o Segment(196, DhtPayload)
        \o (IF ~f.has_scan THEN <<255, 217>>
            ELSE Segment(218, SosPayload(f.sos_ncomp))
                 \o (IF f.tail = "eoi" THEN scan \o <<255, 217>>
                     ELSE IF f.tail = "cut" THEN SubSeq(scan, 1, f.cut)
                     ELSE SubSeq(scan, 1, f.cut)
                          \o <<255, 0, 255, 0, 255, 0, 255, 0>> \o <<255, 217>>))

JpegFiles ==
    {[sof |-> s, has_scan |-> FALSE, sos_ncomp |-> 1,
      diffs |-> [i \in 1..JpgMcus |-> 0], tail |-> "eoi", cut |-> 0] :
        s \in {SOF0, SOF2}}
    \cup
    {[sof |-> s, has_scan |-> TRUE, sos_ncomp |-> n, diffs |-> d, tail |-> t, cut |-> k] :
        s \in {SOF0, SOF2}, n \in {0, 1},
        d \in [1..JpgMcus -> (0 - JpgMaxDiff)..JpgMaxDiff],
        t \in {"eoi", "cut", "ones"}, k \in 0..JpgMaxCut}

InitJpeg ==
    /\ DpIdle
    /\ OtherIdle
    /\ VecIdle
    /\ CliIdle
    /\ PngIdle
    /\ jpg_file \in {f \in JpegFiles :
                        /\ f.tail = "eoi" => f.cut = 0
                        /\ f.cut < Len(PackBits(ScanBits(f.diffs)))}
    /\ jpg_data = JpegFile(jpg_file)
    /\ jpg_pos = 0
    /\ jpg_width = 0
    /\ jpg_height = 0
    /\ jpg_components = <<>>
    /\ jpg_quant_tables = <<>>
    /\ jpg_huffman_dc = <<>>
    /\ jpg_huffman_ac = <<>>
    /\ jpg_pixels = <<>>
    /\ jpg_scan = NoScan
    /\ jpg_pc = "start"
    /\ jpg_raised = "none"
    /\ jpg_failed = NoFailure
    /\ jpg_written = <<>>

\* Lines 308-312.
JpgSignature ==
    /\ jpg_pc = "start"
    /\ IF Slice(jpg_data, 0, 2) # <<255, 216>>
       THEN /\ jpg_raised' = "ValueError: Invalid JPEG signature"
            /\ jpg_pc' = "raised"
            /\ UNCHANGED jpg_pos
       ELSE /\ jpg_pos' = 2
            /\ jpg_pc' = IF 2 < Len(jpg_data) - 1 THEN "markers" ELSE "returned"
            /\ UNCHANGED jpg_raised
    /\ UNCHANGED <<jpg_data, jpg_file, jpg_width, jpg_height, jpg_components,
                   jpg_quant_tables, jpg_huffman_dc, jpg_huffman_ac, jpg_pixels,
                   jpg_scan, jpg_failed, jpg_written>>
    /\ UNCHANGED <<dpVars, vecVars, loadVars, cliVars, pngVars, otherVars>>

\* What one pass of the marker loop (lines 313-344) does to the decoder, for
\* the marker at pos: [ok, error, pos, stop, scanning] and the decoder's
\* fields; stop says the loop was left by break.
marker_pass(data, pos, dec) ==
    LET marker == data[pos + 2]
        length == unpack_H(Slice(data, pos + 2, pos + 4))
        segment == Slice(data, pos + 4, pos + 2 + length)
        next == pos + 2 + length
        same == [pos |-> pos + 2, stop |-> FALSE, scanning |-> FALSE] @@ dec
        dqt == parse_dqt(segment, 0, dec.quant_tables)
        sof == parse_sof0(segment)
        dht == parse_dht(segment, 0, dec.huffman_dc, dec.huffman_ac)
        scan == begin_scan(segment, extract_scan_data(Slice(data, next, Len(data)), 0),
                           dec.components, dec.width, dec.height)
    IN  IF data[pos + 1] # 255 THEN Ok([same EXCEPT !.pos = pos + 1])
        ELSE IF marker = 216 \/ marker = 0 \/ marker \in 208..215 THEN Ok(same)
        ELSE IF marker = 217 THEN Ok([same EXCEPT !.stop = TRUE])
        ELSE IF Len(Slice(data, pos + 2, pos + 4)) < 2 THEN Err("struct.error", same)
        ELSE IF marker = 219
        THEN [ok |-> dqt.ok, error |-> dqt.error]
             @@ [same EXCEPT !.pos = next, !.quant_tables = dqt.quant_tables]
        ELSE IF marker = 192
        THEN [ok |-> sof.ok, error |-> sof.error]
             @@ [same EXCEPT !.pos = next, !.width = sof.width, !.height = sof.height,
                             !.components = sof.components]
        ELSE IF marker = 196
        THEN [ok |-> dht.ok, error |-> dht.error]
             @@ [same EXCEPT !.pos = next, !.huffman_dc = dht.huffman_dc,
                             !.huffman_ac = dht.huffman_ac]
        ELSE IF marker = 218
        THEN [ok |-> scan.ok, error |-> scan.error]
             @@ [same EXCEPT !.pos = next, !.stop = TRUE, !.scanning = scan.ok,
                             !.scan = scan.scan, !.pixels = scan.pixels]
        ELSE Ok([same EXCEPT !.pos = next])

JpgMarker ==
    /\ jpg_pc = "markers"
    /\ \E m \in {marker_pass(jpg_data, jpg_pos,
                             [width |-> jpg_width, height |-> jpg_height,
                              components |-> jpg_components,
                              quant_tables |-> jpg_quant_tables,
                              huffman_dc |-> jpg_huffman_dc,
                              huffman_ac |-> jpg_huffman_ac,
                              pixels |-> jpg_pixels, scan |-> jpg_scan])} :
          /\ jpg_pos' = m.pos
          /\ jpg_width' = m.width
          /\ jpg_height' = m.height
          /\ jpg_components' = m.components
          /\ jpg_quant_tables' = m.quant_tables
          /\ jpg_huffman_dc' = m.huffman_dc
          /\ jpg_huffman_ac' = m.huffman_ac
          /\ jpg_pixels' = m.pixels
          /\ jpg_scan' = m.scan
          /\ jpg_raised' = m.error
          /\ jpg_pc' = IF ~m.ok THEN "raised"
                       ELSE IF m.scanning /\ m.scan.mcus_x * m.scan.mcus_y > 0 THEN "scan"
                       ELSE IF m.stop \/ m.pos >= Len(jpg_data) - 1 THEN "returned"
                       ELSE "markers"
    /\ UNCHANGED <<jpg_data, jpg_file, jpg_failed, jpg_written>>
    /\ UNCHANGED <<dpVars, vecVars, loadVars, cliVars, pngVars, otherVars>>

\* One pass of the MCU loop (lines 491-509), the handler included.
JpgDecodeMcu ==
    /\ jpg_pc = "scan"
    /\ \E tables \in {Tables(jpg_components, jpg_quant_tables, jpg_huffman_dc,
                             jpg_huffman_ac)} :
       \E d \in {decode_mcu_blocks(jpg_scan.scan_data, jpg_scan.r, tables,
                                   jpg_scan.comp_info, 0, jpg_scan.dc_pred, <<>>)} :
       \E p \in {IF d.ok
                 THEN blocks_to_pixels(jpg_pixels, d.blocks,
                                       jpg_scan.mcu % jpg_scan.mcus_x,
                                       jpg_scan.mcu \div jpg_scan.mcus_x,
                                       jpg_scan.mcu_width, jpg_scan.mcu_height,
                                       jpg_components, jpg_width, jpg_height)
                 ELSE [ok |-> TRUE, pixels |-> keep_decoded(jpg_pixels)]} :
          /\ jpg_pixels' = p.pixels
          /\ jpg_raised' = IF p.ok THEN "none" ELSE "ZeroDivisionError"
          /\ jpg_scan' = IF d.ok /\ p.ok
                         THEN [jpg_scan EXCEPT !.r = d.r, !.dc_pred = d.dc_pred,
                                               !.mcu = jpg_scan.mcu + 1]
                         ELSE jpg_scan
          /\ jpg_pc' = IF ~p.ok THEN "raised"
                       ELSE IF ~d.ok THEN "returned"
                       ELSE IF jpg_scan.mcu + 1 = jpg_scan.mcus_x * jpg_scan.mcus_y
                       THEN "returned"
                       ELSE "scan"
          /\ jpg_written' = IF d.ok /\ p.ok THEN Append(jpg_written, p.pixels)
                            ELSE jpg_written
          /\ jpg_failed' =
               IF jpg_failed # NoFailure THEN jpg_failed
               ELSE IF ~d.ok THEN [mcu |-> jpg_scan.mcu, kind |-> "exception"]
               ELSE IF d.r.exhausted THEN [mcu |-> jpg_scan.mcu, kind |-> "exhausted"]
               ELSE IF d.r.unmatched THEN [mcu |-> jpg_scan.mcu, kind |-> "unmatched"]
               ELSE jpg_failed
    /\ UNCHANGED <<jpg_data, jpg_file, jpg_pos, jpg_width, jpg_height, jpg_components,
                   jpg_quant_tables, jpg_huffman_dc, jpg_huffman_ac>>
    /\ UNCHANGED <<dpVars, vecVars, loadVars, cliVars, pngVars, otherVars>>

NextJpeg == JpgSignature \/ JpgMarker \/ JpgDecodeMcu

SpecJpeg == InitJpeg /\ [][NextJpeg]_vars

\* The pixels of MCU number m that lie in the image.
McuPixels(m) ==
    {p \in (0..(jpg_width - 1)) \X (0..(jpg_height - 1)) :
        /\ p[1] \div jpg_scan.mcu_width = m % jpg_scan.mcus_x
        /\ p[2] \div jpg_scan.mcu_height = m \div jpg_scan.mcus_x}

C5_ProgressiveNeverDecoded ==
    (jpg_pc # "idle" /\ jpg_file.sof # SOF0) =>
        /\ jpg_pc # "returned"
        /\ jpg_pixels = <<>>

(***************************************************************************)
(* SpecUnfilter: a writer filters one scanline with a filter type of the   *)
(* PNG specification, and _unfilter_row is called on the filtered bytes.   *)
(***************************************************************************)
UfLen == 3
UfMaxBpp == 2

\* The byte values the rows are made of.
UfBytes == {0, 1, 128, 255}

UfRows(n) == [1..n -> UfBytes]

\* The Paeth predictor as the PNG specification words it.
PaethStd(a, b, c) ==
    LET p == a + b - c
        pa == Abs(p - a)
        pb == Abs(p - b)
        pc == Abs(p - c)
    IN  IF pa <= pb /\ pa <= pc THEN a ELSE IF pb <= pc THEN b ELSE c

\* The forward filter of the PNG specification: each byte minus its
\* prediction from the unfiltered bytes to the left (a), above (b) and above
\* left (c), modulo 256.
FilterRow(filter_type, scanline, prev_row, bpp) ==
    [i \in 1..Len(scanline) |->
        LET a == IF i > bpp THEN scanline[i - bpp] ELSE 0
            b == prev_row[i]
            c == IF i > bpp THEN prev_row[i - bpp] ELSE 0
            predicted == IF filter_type = 0 THEN 0
                         ELSE IF filter_type = 1 THEN a
                         ELSE IF filter_type = 2 THEN b
                         ELSE IF filter_type = 3 THEN (a + b) \div 2
                         ELSE PaethStd(a, b, c)
        IN  (scanline[i] + 256 - predicted) % 256]

InitUnfilter ==
    /\ DpIdle
    /\ McpIdle
    /\ TrIdle
    /\ PairIdle
    /\ LaterIdle
    /\ VecIdle
    /\ CliIdle
    /\ PngIdle
    /\ JpgIdle
    /\ uf_filter_type \in 0..4
    /\ uf_bpp \in 1..UfMaxBpp
    /\ \E n \in 1..UfLen :
          /\ uf_prev_row \in UfRows(n)
          /\ uf_scanline \in UfRows(n)
    /\ uf_row = <<>>
    /\ uf_result = <<>>
    /\ uf_pc = "input"

\* The writer's side: the scanline filtered.
UfFilter ==
    /\ uf_pc = "input"
    /\ uf_row' = FilterRow(uf_filter_type, uf_scanline, uf_prev_row, uf_bpp)
    /\ uf_pc' = "filtered"
    /\ UNCHANGED <<uf_filter_type, uf_bpp, uf_prev_row, uf_scanline, uf_result>>
    /\ UNCHANGED <<dpVars, vecVars, loadVars, cliVars, decoderVars, mcp_layer>>
    /\ UNCHANGED <<traceVars, pairVars, laterVars>>

\* self._unfilter_row(filter_type, row_data, prev_row, bytes_per_pixel)
UfUnfilter ==
    /\ uf_pc = "filtered"
    /\ uf_result' = unfilter_row(uf_filter_type, uf_row, uf_prev_row, uf_bpp)
    /\ uf_pc' = "unfiltered"
    /\ UNCHANGED <<uf_filter_type, uf_bpp, uf_prev_row, uf_scanline, uf_row>>
    /\ UNCHANGED <<dpVars, vecVars, loadVars, cliVars, decoderVars, mcp_layer>>
    /\ UNCHANGED <<traceVars, pairVars, laterVars>>

NextUnfilter == UfFilter \/ UfUnfilter

SpecUnfilter == InitUnfilter /\ [][NextUnfilter]_vars

\* C11: for every filter type 0..4, bytes per pixel, previous row and
\* scanline, _unfilter_row applied to the filtered scanline, with the same
\* filter type and previous row, returns the scanline's bytes.
C11_UnfilterInvertsFilter ==
    uf_pc = "unfiltered" => uf_result = uf_scanline

\* C11 witness: a Paeth-filtered scanline whose filtered bytes differ from
\* the scanline in a byte that has a left neighbour was unfiltered.
C11_Witness ==
    /\ uf_pc = "unfiltered"
    /\ uf_filter_type = 4
    /\ uf_bpp < Len(uf_scanline)
    /\ \E i \in (uf_bpp + 1)..Len(uf_scanline) : uf_row[i] # uf_scanline[i]
    /\ uf_result = uf_scanline

ZeroRow(row) == \A i \in 1..Len(row) : row[i] = 0

\* C12: _unfilter_row with filter type 2 (Up) and an all-zero previous row,
\* as the previous row of an image's first scanline is, returns the bytes of
\* its argument row unchanged.
C12_UpOverZeroRowIsIdentity ==
    (uf_pc = "unfiltered" /\ uf_filter_type = 2 /\ ZeroRow(uf_prev_row)) =>
        uf_result = uf_row

\* C12 witness: a row with a non-zero byte was unfiltered with type 2 over a
\* zero row.
C12_Witness ==
    /\ uf_pc = "unfiltered"
    /\ uf_filter_type = 2
    /\ ZeroRow(uf_prev_row)
    /\ ~ZeroRow(uf_row)
    /\ uf_result = uf_row

(***************************************************************************)
(* The placement of the lines cli_vectorize emits (SpecCli).               *)
(***************************************************************************)
\* Fractions <<numerator, denominator>> with non-zero denominators.
FracEq(a, b) == a[1] * b[2] = b[1] * a[2]

FracLE(a, b) ==
    IF (a[2] > 0) = (b[2] > 0) THEN a[1] * b[2] <= b[1] * a[2]
    ELSE a[1] * b[2] >= b[1] * a[2]

\* s is min(w / W, h / H).
IsUniformScale(s, w, h, W, H) ==
    /\ FracEq(s, <<w, W>>) \/ FracEq(s, <<h, H>>)
    /\ FracLE(s, <<w, W>>)
    /\ FracLE(s, <<h, H>>)

\* The point p of the output is (x + px s, y + (H - py) s).
IsPlaced(p, px, py, x, y, s, H) ==
    /\ FracEq(p[1], <<x * s[2] + px * s[1], s[2]>>)
    /\ FracEq(p[2], <<y * s[2] + (H - py) * s[1], s[2]>>)

\* The pairs of pixel points a contour's lines join: each point with the
\* next, and the last with the first.
PointPairs(points) ==
    [i \in 1..(Len(points) - 1) |-> <<points[i], points[i + 1]>>]
    \o (IF Len(points) > 2 THEN << <<points[Len(points)], points[1]>> >> ELSE <<>>)

RECURSIVE AllPointPairs(_)
AllPointPairs(cs) ==
    IF cs = <<>> THEN <<>> ELSE PointPairs(Head(cs)) \o AllPointPairs(Tail(cs))

Placed ==
    /\ "set_output_bounds" \in calls
    /\ "vectorize" \in calls
    /\ raised = "none"

\* The example of a 10 x 10 image in the rectangle (0, 0, 100, 100), the scale
\* being 100 / 10: pixel (0, 0) goes to (0, 100) and pixel (9, 9) to (90, 10).
ExamplePlaced ==
    LET image == <<NewBinaryImage(10, 10)>>
        p == transform_point(<<0, 0>>, image, <<100, 10>>, <<0, 0>>)
        q == transform_point(<<9, 9>>, image, <<100, 10>>, <<0, 0>>)
    IN  /\ FracEq(p[1], <<0, 1>>) /\ FracEq(p[2], <<100, 1>>)
        /\ FracEq(q[1], <<90, 1>>) /\ FracEq(q[2], <<10, 1>>)

\* C13: after set_output_bounds(x, y, w, h) on a loaded W x H image, the
\* scale is s = min(w / W, h / H) and every end of every emitted line is its
\* pixel point (px, py) moved to (x + px s, y + (H - py) s), the y axis
\* always flipped; so it is in the example of the 10 x 10 image.
C13_PointsPlacedInBounds ==
    Placed =>
        /\ ExamplePlaced
        /\ LET W == binary_image[1].width
               H == binary_image[1].height
               pairs == AllPointPairs(simplified_contours)
           IN  /\ IsUniformScale(output_scale, bg.width, bg.height, W, H)
               /\ Len(lines) = Len(pairs)
               /\ \A i \in 1..Len(lines) :
                     /\ IsPlaced(lines[i].start, pairs[i][1][1], pairs[i][1][2],
                                 bg.x, bg.y, output_scale, H)
                     /\ IsPlaced(lines[i].end, pairs[i][2][1], pairs[i][2][2],
                                 bg.x, bg.y, output_scale, H)

\* C13 witness: lines were emitted into a rectangle that is not square and
\* not at the origin, one of them starting at a pixel below the top row.
C13_Witness ==
    /\ Placed
    /\ bg.width # bg.height
    /\ bg.x # 0
    /\ \E i \in 1..Len(AllPointPairs(simplified_contours)) :
          /\ AllPointPairs(simplified_contours)[i][1][2] > 0
          /\ IsPlaced(lines[i].start, AllPointPairs(simplified_contours)[i][1][1],
                      AllPointPairs(simplified_contours)[i][1][2],
                      bg.x, bg.y, output_scale, binary_image[1].height)

(***************************************************************************)
(* The edge threshold cli_vectorize applies when none is given (SpecCli).  *)
(***************************************************************************)
\* The largest difference of the gray pixel (x, y) to its right and its lower
\* neighbour.
NeighbourDiff(g, x, y) ==
    Max(Abs(g.pixels[y][x] - g.pixels[y][x + 1]),
        Abs(g.pixels[y][x] - g.pixels[y + 1][x]))

\* The pixels that have both neighbours.
EdgePixels(g) == (0..(g.width - 2)) \X (0..(g.height - 2))

\* load_image has loaded an image in the mode m, no edge threshold given.
EdgeLoadedByDefault(m) ==
    /\ LoadReturned
    /\ mode = m
    /\ "edge_threshold" \notin DOMAIN options
    /\ "threshold" \notin DOMAIN options
    /\ gray_image # None
    /\ binary_image # None

\* C17 as stated: in edge_simple mode with no threshold option given, a pixel
\* whose largest difference to its right / lower neighbour is 31..50 becomes
\* foreground (the threshold applied is 30), while edge mode applies 50.
C17_EdgeSimpleDefaultIs30 ==
    /\ EdgeLoadedByDefault("edge_simple") =>
          \A p \in EdgePixels(gray_image[1]) :
              NeighbourDiff(gray_image[1], p[1], p[2]) \in 31..50
                  => binary_image[1].pixels[p[2]][p[1]] = 1
    /\ EdgeLoadedByDefault("edge") => edge_threshold = 50

\* C17 amended: with no threshold option given, edge_simple mode applies the
\* same threshold 50 as edge mode: a pixel that has both neighbours is
\* foreground exactly when its largest difference to them is above 50, so a
\* difference of 31..50 leaves it background.
C17_EdgeSimpleDefaultIs50 ==
    /\ EdgeLoadedByDefault("edge_simple") =>
          /\ edge_threshold = 50
          /\ \A p \in EdgePixels(gray_image[1]) :
                binary_image[1].pixels[p[2]][p[1]] = 1
                    <=> NeighbourDiff(gray_image[1], p[1], p[2]) > 50
    /\ EdgeLoadedByDefault("edge") => edge_threshold = 50

\* C17 witness: edge_simple mode with no threshold given has loaded an image
\* with a pixel whose difference is 31..50, and left it background.
C17_Witness ==
    /\ EdgeLoadedByDefault("edge_simple")
    /\ \E p \in EdgePixels(gray_image[1]) :
          /\ NeighbourDiff(gray_image[1], p[1], p[2]) \in 31..50
          /\ binary_image[1].pixels[p[2]][p[1]] = 0

(***************************************************************************)
(* SpecSquare: a new ImageVectorizer in binary mode with threshold 128,    *)
(* min_area 1, min_length 3 and the default epsilon 2.0, run on a white    *)
(* 20 x 20 image that holds one black 4 x 4 square.                        *)
(***************************************************************************)
\* The image whose square has its top left corner at (sx, sy).
SquareImage(sx, sy) ==
    [width |-> 20, height |-> 20,
     pixels |-> [y \in 0..19 |->
                   [x \in 0..19 |->
                      IF x >= sx /\ x < sx + 4 /\ y >= sy /\ y < sy + 4
                      THEN 0 ELSE 255]]]

SquareFiles ==
    {[ext |-> "png", ok |-> TRUE, gray |-> <<SquareImage(sx, sy)>>] :
        sx \in 0..16, sy \in 0..16}

InitSquare ==
    /\ DpIdle
    /\ OtherIdle
    /\ PngIdle
    /\ JpgIdle
    /\ file \in SquareFiles
    /\ pil_installed = FALSE
    /\ options = <<>>
    /\ bg = <<>>
    /\ cli_pc = "idle"
    /\ cli_result = [none |-> TRUE]
    /\ gray_image = None
    /\ decoded_by = "none"
    /\ printed = <<>>
    /\ binary_image = None
    /\ mode = "binary"
    /\ threshold = 128
    /\ edge_threshold = DEFAULT_EDGE_THRESHOLD
    /\ min_component_area = 1
    /\ min_contour_length = 3
    /\ simplify_epsilon = DEFAULT_SIMPLIFY_EPSILON
    /\ output_scale = DEFAULT_OUTPUT_SCALE
    /\ output_offset = DEFAULT_OUTPUT_OFFSET
    /\ contours = <<>>
    /\ simplified_contours = <<>>
    /\ lines = <<>>
    /\ labeler = NoLabeler
    /\ calls = {}
    /\ raised = "none"
    /\ mcp_result = [none |-> TRUE]

\* vectorizer.load_image(path)
SqLoadImage ==
    /\ binary_image = None
    /\ load_image
    /\ calls' = calls \cup {"load_image"}
    /\ raised' = "none"
    /\ UNCHANGED <<dpVars, configVars, outputVars, resultVars, mcp_result, cliVars>>
    /\ UNCHANGED <<decoderVars, otherVars>>

NextSquare == SqLoadImage \/ VecVectorize \/ VecGenerate

SpecSquare == InitSquare /\ [][NextSquare]_vars

PointSet(points) == {points[i] : i \in 1..Len(points)}

\* vectorize() has run on the loaded image and returned: its labeler has
\* labelled the square.
SquareVectorized ==
    /\ binary_image # None
    /\ "vectorize" \in calls
    /\ raised = "none"
    /\ labeler.current_label > 0

\* C14: for the 20 x 20 white image with one black 4 x 4 square at any
\* position, vectorize() yields exactly one contour, its simplified point list
\* has at most 4 distinct points, and the lines emitted include the closing
\* segment from the last simplified point back to the first.
C14_SquareGivesOneClosedContour ==
    SquareVectorized =>
        /\ Len(contours) = 1
        /\ Len(simplified_contours) = 1
        /\ Cardinality(PointSet(simplified_contours[1])) <= 4
        /\ LET ps == simplified_contours[1]
           IN  \E i \in 1..Len(lines) :
                  /\ IsPlaced(lines[i].start, ps[Len(ps)][1], ps[Len(ps)][2],
                              0, 0, <<1, 1>>, 20)
                  /\ IsPlaced(lines[i].end, ps[1][1], ps[1][2], 0, 0, <<1, 1>>, 20)

\* C14 witness: a square away from the image's border was vectorized into one
\* contour of 4 distinct points and 4 lines.
C14_Witness ==
    /\ SquareVectorized
    /\ binary_image[1].pixels[0][0] = 0
    /\ binary_image[1].pixels[5][5] = 1
    /\ Len(simplified_contours) = 1
    /\ Cardinality(PointSet(simplified_contours[1])) = 4
    /\ Len(lines) = 4

(***************************************************************************)
(* The lines vectorize emits for its simplified contours (SpecVectorize).  *)
(***************************************************************************)
\* The pairs of points the lines of a contour join when every contour gets a
\* closing line: each point with the next, then the last with the first.
ClosedPairs(points) ==
    [i \in 1..(Len(points) - 1) |-> <<points[i], points[i + 1]>>]
    \o << <<points[Len(points)], points[1]>> >>

RECURSIVE AllClosedPairs(_)
AllClosedPairs(cs) ==
    IF cs = <<>> THEN <<>> ELSE ClosedPairs(Head(cs)) \o AllClosedPairs(Tail(cs))

\* self.lines joins the pairs of pixel points, in their order.
LinesJoin(pairs) ==
    /\ Len(lines) = Len(pairs)
    /\ \A i \in 1..Len(lines) :
          /\ IsPlaced(lines[i].start, pairs[i][1][1], pairs[i][1][2],
                      output_offset[1], output_offset[2], output_scale,
                      binary_image[1].height)
          /\ IsPlaced(lines[i].end, pairs[i][2][1], pairs[i][2][2],
                      output_offset[1], output_offset[2], output_scale,
                      binary_image[1].height)

VectorizeReturned == Vectorized /\ raised = "none"

\* C15 as stated: for every simplified contour p0..p(k-1), whatever k is,
\* vectorize emits the lines p0->p1, ..., p(k-2)->p(k-1) and then the closing
\* line p(k-1)->p0, the lines of the contours in contour order.
C15_EveryContourGetsClosingLine ==
    VectorizeReturned => LinesJoin(AllClosedPairs(simplified_contours))

\* C15 amended: for every simplified contour p0..p(k-1), vectorize emits the
\* lines p0->p1, ..., p(k-2)->p(k-1), followed by the closing line p(k-1)->p0
\* when k >= 3; a contour of 2 points gives the one line p0->p1; the lines of
\* the contours are in contour order.
C15_ContoursOfThreePointsGetClosingLine ==
    VectorizeReturned =>
        /\ LinesJoin(AllPointPairs(simplified_contours))
        /\ \A i \in 1..Len(simplified_contours) : Len(simplified_contours[i]) >= 2

\* C15 witness: two contours were emitted, the first simplified to 3 points
\* or more, and the last line closes the last contour.
C15_Witness ==
    /\ VectorizeReturned
    /\ Len(simplified_contours) = 2
    /\ Len(simplified_contours[1]) >= 3
    /\ Len(lines) = Len(AllPointPairs(simplified_contours))
    /\ Len(lines) >= 4

(***************************************************************************)
(* SpecBatch: generate_mcp_sequence(layer) called on a vectorizer whose    *)
(* self.lines holds n lines; the result depends on self.lines and layer    *)
(* alone.                                                                  *)
(***************************************************************************)
MaxLines == 101

\* n lines, different from each other, with whole coordinates.
LinesOf(n) ==
    [i \in 1..n |-> Line(<<<<i, 1>>, <<0, 1>>>>, <<<<i + 1, 1>>, <<i, 1>>>>)]

InitBatch ==
    /\ DpIdle
    /\ UfIdle
    /\ TrIdle
    /\ PairIdle
    /\ LaterIdle
    /\ CliIdle
    /\ PngIdle
    /\ JpgIdle
    /\ gray_image = None
    /\ decoded_by = "none"
    /\ printed = <<>>
    /\ binary_image = None
    /\ mode = DEFAULT_MODE
    /\ threshold = DEFAULT_THRESHOLD
    /\ edge_threshold = DEFAULT_EDGE_THRESHOLD
    /\ min_component_area = DEFAULT_MIN_COMPONENT_AREA
    /\ min_contour_length = DEFAULT_MIN_CONTOUR_LENGTH
    /\ simplify_epsilon = DEFAULT_SIMPLIFY_EPSILON
    /\ output_scale = DEFAULT_OUTPUT_SCALE
    /\ output_offset = DEFAULT_OUTPUT_OFFSET
    /\ contours = <<>>
    /\ simplified_contours = <<>>
    /\ lines \in {LinesOf(n) : n \in 0..MaxLines}
    /\ labeler = NoLabeler
    /\ calls = {}
    /\ raised = "none"
    /\ mcp_result = [none |-> TRUE]
    /\ mcp_layer \in {"TRACE", "WALLS"}

\* vectorizer.generate_mcp_sequence(layer)
BatchGenerate ==
    /\ "generate_mcp_sequence" \notin calls
    /\ mcp_result' = generate_mcp_sequence(lines, mcp_layer)
    /\ calls' = calls \cup {"generate_mcp_sequence"}
    /\ raised' = "none"
    /\ UNCHANGED <<dpVars, binary_image, configVars, outputVars, resultVars, loadVars,
                   cliVars, decoderVars, filterVars, mcp_layer, traceVars, pairVars,
                   laterVars>>

NextBatch == BatchGenerate

SpecBatch == InitBatch /\ [][NextBatch]_vars

RECURSIVE Flatten(_)
Flatten(seqs) == IF seqs = <<>> THEN <<>> ELSE Head(seqs) \o Flatten(Tail(seqs))

\* ceil(n / 50)
BatchesFor(n) == (n + 49) \div 50

\* The entry draws the line: its ends are the line's, in hundredths.
DrawsLine(entry, line) ==
    /\ entry.tool = "create_line"
    /\ entry.args.start.x * line.start[1][2] = 100 * line.start[1][1]
    /\ entry.args.start.y * line.start[2][2] = 100 * line.start[2][1]
    /\ entry.args.end.x * line.end[1][2] = 100 * line.end[1][1]
    /\ entry.args.end.y * line.end[2][2] = 100 * line.end[2][1]

Generated == "generate_mcp_sequence" \in calls /\ Len(lines) >= 1

\* C16: for n >= 1 lines, generate_mcp_sequence(layer) returns total_lines = n
\* and a sequence whose first step is the one create-layer step for the
\* layer, followed by ceil(n / 50) batch steps numbered from 2 on, each of at
\* most 50 entries and all but the last of exactly 50; the batches joined
\* hold one entry per line, in the order of the lines, each naming the
\* layer; total_steps = 1 + ceil(n / 50).
C16_BatchesOfFifty ==
    Generated =>
        LET n == Len(lines)
            seq == mcp_result.sequence
            batches == SubSeq(seq, 2, Len(seq))
            entries == Flatten([b \in 1..Len(batches) |-> batches[b].tools])
        IN  /\ ~IsError(mcp_result)
            /\ mcp_result.total_lines = n
            /\ mcp_result.total_steps = 1 + BatchesFor(n)
            /\ Len(seq) = 1 + BatchesFor(n)
            /\ seq[1].step = 1
            /\ Len(seq[1].tools) = 1
            /\ seq[1].tools[1].tool = "create_layer"
            /\ seq[1].tools[1].args.name = mcp_layer
            /\ \A b \in 1..Len(batches) :
                  /\ batches[b].step = b + 1
                  /\ Len(batches[b].tools) <= 50
                  /\ Len(batches[b].tools) >= 1
                  /\ b < Len(batches) => Len(batches[b].tools) = 50
            /\ Len(entries) = n
            /\ \A j \in 1..n :
                  /\ DrawsLine(entries[j], lines[j])
                  /\ entries[j].args.layer = mcp_layer

\* C16 witness: 101 lines or more were put in two batches of 50 and a last
\* batch, on a layer other than the default.
C16_Witness ==
    /\ Generated
    /\ mcp_layer = "WALLS"
    /\ Len(lines) > 100
    /\ mcp_result.total_steps = 4
    /\ Len(mcp_result.sequence[4].tools) < 50

(***************************************************************************)
(* SpecTrace: ContourTracer(image).trace_all_contours(min_length) on every *)
(* TraceW x TraceH binary image, the raster scan taken one cell at a time. *)
(***************************************************************************)
TraceW == 4
TraceH == 3

TraceCells == (0..(TraceW - 1)) \X (0..(TraceH - 1))

\* The TraceW x TraceH binary image whose foreground is the set fg of cells.
TraceGridOf(fg) ==
    [width |-> TraceW, height |-> TraceH,
     pixels |-> [y \in 0..(TraceH - 1) |->
                   [x \in 0..(TraceW - 1) |-> IF <<x, y>> \in fg THEN 1 ELSE 0]]]

TraceGrids == {TraceGridOf(fg) : fg \in SUBSET TraceCells}

\* ContourTracer.__init__ (lines 1249-1251) and the entry of
\* trace_all_contours (line 1255).
InitTrace ==
    /\ DpIdle
    /\ UfIdle
    /\ McpIdle
    /\ PairIdle
    /\ LaterIdle
    /\ VecIdle
    /\ CliIdle
    /\ PngIdle
    /\ JpgIdle
    /\ tr_image \in TraceGrids
    /\ tr_min_length \in 0..MaxMinLength
    /\ tr_k = 0
    /\ tr_visited = {}
    /\ tr_contours = <<>>
    /\ tr_walks = <<>>
    /\ tr_pc = "scan"

\* One iteration of the loops of lines 1257-1265, at the cell tr_k.
TraceCell ==
    /\ tr_pc = "scan"
    /\ tr_k < tr_image.width * tr_image.height
    /\ \E x \in {tr_k % tr_image.width} : \E y \in {tr_k \div tr_image.width} :
          IF /\ get_pixel(tr_image, x, y) = 1
             /\ get_pixel(tr_image, x - 1, y) = 0
             /\ <<x, y>> \notin tr_visited
          THEN \E walk \in {trace_walk(tr_image, x, y, tr_visited)} :
                  /\ tr_visited' = walk.visited
                  /\ tr_contours' = IF contour_kept(walk.points, tr_min_length)
                                    THEN Append(tr_contours, walk.points)
                                    ELSE tr_contours
                  /\ tr_walks' = Append(tr_walks, [start |-> <<x, y>>,
                                                   before |-> tr_visited,
                                                   points |-> walk.points])
          ELSE UNCHANGED <<tr_visited, tr_contours, tr_walks>>
    /\ tr_k' = tr_k + 1
    /\ UNCHANGED <<tr_image, tr_min_length, tr_pc>>
    /\ UNCHANGED <<dpVars, vecVars, loadVars, cliVars, decoderVars, filterVars,
                   mcp_layer, pairVars, laterVars>>

\* return contours (line 1267)
TraceReturn ==
    /\ tr_pc = "scan"
    /\ tr_k = tr_image.width * tr_image.height
    /\ tr_pc' = "returned"
    /\ UNCHANGED <<tr_image, tr_min_length, tr_k, tr_visited, tr_contours, tr_walks>>
    /\ UNCHANGED <<dpVars, vecVars, loadVars, cliVars, decoderVars, filterVars,
                   mcp_layer, pairVars, laterVars>>

NextTrace == TraceCell \/ TraceReturn

SpecTrace == InitTrace /\ [][NextTrace]_vars

\* The scan taken cell by cell returns what trace_all_contours returns.
TraceAgreesWithTraceAll ==
    tr_pc = "returned" => tr_contours = trace_all_contours(tr_image, tr_min_length)

\* p and q are different pixels that touch by a side or a corner.
EightNeighbours(p, q) ==
    /\ p # q
    /\ Abs(p[1] - q[1]) <= 1
    /\ Abs(p[2] - q[2]) <= 1

\* C19: every contour the tracer returns is closed: its last point is an
\* 8-neighbour of its first point, as it is whenever the walk ended by
\* stepping back onto the start pixel.
C19_ReturnedContoursAreClosed ==
    \A i \in 1..Len(tr_contours) :
        EightNeighbours(tr_contours[i][Len(tr_contours[i])], tr_contours[i][1])

\* The foreground of an image.
ForegroundOf(img) ==
    {c \in (0..(img.width - 1)) \X (0..(img.height - 1)) : get_pixel(img, c[1], c[2]) = 1}

\* p and q touch by a side.
FourNeighbours(p, q) == Abs(p[1] - q[1]) + Abs(p[2] - q[2]) = 1

\* The cells of all that a path of 8-neighbours inside all joins to S.
RECURSIVE Joined8(_, _)
Joined8(S, all) ==
    LET grown == S \cup {c \in all : \E s \in S : EightNeighbours(s, c)}
    IN  IF grown = S THEN S ELSE Joined8(grown, all)

\* The cells of all that a path of 4-neighbours inside all joins to S.
RECURSIVE Joined4(_, _)
Joined4(S, all) ==
    LET grown == S \cup {c \in all : \E s \in S : FourNeighbours(s, c)}
    IN  IF grown = S THEN S ELSE Joined4(grown, all)

\* The foreground is one 8-connected region.
SingleRegion(img) ==
    /\ ForegroundOf(img) # {}
    /\ \E c \in ForegroundOf(img) : Joined8({c}, ForegroundOf(img)) = ForegroundOf(img)

\* No hole: every background pixel is joined by background 4-neighbours to
\* the margin around the image.
WithoutHoles(img) ==
    LET background == ((-1..img.width) \X (-1..img.height)) \ ForegroundOf(img)
    IN  Joined4({<<-1, -1>>}, background) = background

\* C20: each boundary is traced exactly once: no call of _trace_contour
\* starts at a pixel an earlier trace visited, and on an image whose
\* foreground is a single 8-connected region without holes
\* trace_all_contours (min_length <= 3) returns at most one contour.
C20_EachBoundaryTracedOnce ==
    /\ \A i \in 1..Len(tr_walks) : tr_walks[i].start \notin tr_walks[i].before
    /\ (/\ tr_pc = "returned"
        /\ tr_min_length <= 3
        /\ Len(tr_contours) > 1)
       => ~(SingleRegion(tr_image) /\ WithoutHoles(tr_image))

(***************************************************************************)
(* SpecPair: two threads, each with its own ImageVectorizer, running       *)
(* load_image and the four steps of vectorize on its own image, the steps  *)
(* of the two interleaved in every order.                                  *)
(***************************************************************************)
PairW == 3
PairH == 2

Instances == {1, 2}

PairCells == (0..(PairW - 1)) \X (0..(PairH - 1))

\* The PairW x PairH binary image whose foreground is the set fg of cells.
PairGridOf(fg) ==
    [width |-> PairW, height |-> PairH,
     pixels |-> [y \in 0..(PairH - 1) |->
                   [x \in 0..(PairW - 1) |-> IF <<x, y>> \in fg THEN 1 ELSE 0]]]

PairGrids == {PairGridOf(fg) : fg \in SUBSET PairCells}

\* The filters both callers set on their vectorizer: the smallest that keep
\* anything of an image this small.
PairConfig == [min_component_area |-> 1, min_contour_length |-> 3]

\* self.visited of a ContourTracer whose class kept one visited set for all
\* tracers.
tracer_visited_shared(others) == others

\* self.visited of a new ContourTracer (line 1251), others being the pixels
\* the other tracers have visited.
tracer_visited(others) == {}

\* The pixels the tracers of the instances other than i have visited.
VisitedByOthers(i) == UNION {pr_visited[j] : j \in Instances \ {i}}

InitPair ==
    /\ DpIdle
    /\ UfIdle
    /\ McpIdle
    /\ TrIdle
    /\ LaterIdle
    /\ VecIdle
    /\ CliIdle
    /\ PngIdle
    /\ JpgIdle
    /\ pr_file \in [Instances -> PairGrids]
    /\ pr_epsilon = [i \in Instances |-> IF i = 1 THEN <<1, 2>> ELSE DEFAULT_SIMPLIFY_EPSILON]
    /\ pr_image = [i \in Instances |-> None]
    /\ pr_labels = [i \in Instances |-> 0]
    /\ pr_visited = [i \in Instances |-> {}]
    /\ pr_contours = [i \in Instances |-> <<>>]
    /\ pr_simplified = [i \in Instances |-> <<>>]
    /\ pr_lines = [i \in Instances |-> <<>>]
    /\ pr_pc = [i \in Instances |-> "new"]

PairRest == <<dpVars, vecVars, loadVars, cliVars, decoderVars, filterVars, mcp_layer, traceVars, laterVars>>

\* load_image of instance i.
PairLoad(i) ==
    /\ pr_pc[i] = "new"
    /\ pr_image' = [pr_image EXCEPT ![i] = <<pr_file[i]>>]
    /\ pr_pc' = [pr_pc EXCEPT ![i] = "loaded"]
    /\ UNCHANGED <<pr_file, pr_epsilon, pr_labels, pr_visited, pr_contours,
                   pr_simplified, pr_lines>>
    /\ UNCHANGED PairRest

\* Step 1 of vectorize (lines 1464-1466) in instance i.
PairLabel(i) ==
    /\ pr_pc[i] = "loaded"
    /\ pr_labels' = [pr_labels EXCEPT ![i] =
                        label(pr_image[i][1], PairConfig.min_component_area).current_label]
    /\ pr_pc' = [pr_pc EXCEPT ![i] = "labelled"]
    /\ UNCHANGED <<pr_file, pr_epsilon, pr_image, pr_visited, pr_contours,
                   pr_simplified, pr_lines>>
    /\ UNCHANGED PairRest

\* Step 2 of vectorize (lines 1469-1470) in instance i.
PairTrace(i) ==
    /\ pr_pc[i] = "labelled"
    /\ \E traced \in {trace_all_loop(pr_image[i][1], PairConfig.min_contour_length, 0,
                                     [contours |-> <<>>,
                                      visited |-> tracer_visited(VisitedByOthers(i))])} :
          /\ pr_contours' = [pr_contours EXCEPT ![i] = traced.contours]
          /\ pr_visited' = [pr_visited EXCEPT ![i] = traced.visited]
    /\ pr_pc' = [pr_pc EXCEPT ![i] = "traced"]
    /\ UNCHANGED <<pr_file, pr_epsilon, pr_image, pr_labels, pr_simplified, pr_lines>>
    /\ UNCHANGED PairRest

\* Step 3 of vectorize (lines 1473-1482) in instance i.
PairSimplify(i) ==
    /\ pr_pc[i] = "traced"
    /\ \E n \in {simplified_before_raise(pr_contours[i], pr_epsilon[i])} :
          /\ pr_simplified' = [pr_simplified EXCEPT ![i] =
                                  [k \in 1..n |-> simplify(pr_contours[i][k], pr_epsilon[i])]]
          /\ pr_pc' = [pr_pc EXCEPT ![i] =
                          IF n < Len(pr_contours[i]) THEN "raised" ELSE "simplified"]
    /\ UNCHANGED <<pr_file, pr_epsilon, pr_image, pr_labels, pr_visited, pr_contours,
                   pr_lines>>
    /\ UNCHANGED PairRest

\* Step 4 of vectorize and its return (lines 1485-1490) in instance i.
PairEmit(i) ==
    /\ pr_pc[i] = "simplified"
    /\ pr_lines' = [pr_lines EXCEPT ![i] =
                       all_lines(pr_simplified[i], pr_image[i], DEFAULT_OUTPUT_SCALE,
                                 DEFAULT_OUTPUT_OFFSET)]
    /\ pr_pc' = [pr_pc EXCEPT ![i] = "done"]
    /\ UNCHANGED <<pr_file, pr_epsilon, pr_image, pr_labels, pr_visited, pr_contours,
                   pr_simplified>>
    /\ UNCHANGED PairRest

NextPair ==
    \E i \in Instances :
        PairLoad(i) \/ PairLabel(i) \/ PairTrace(i) \/ PairSimplify(i) \/ PairEmit(i)

SpecPair == InitPair /\ [][NextPair]_vars

\* What load_image and vectorize leave in a vectorizer that runs alone on the
\* image img with simplify_epsilon epsilon.
AloneContours(img) == trace_all_contours(img, PairConfig.min_contour_length)

AloneRaises(img, epsilon) ==
    simplified_before_raise(AloneContours(img), epsilon) < Len(AloneContours(img))

AloneLines(img, epsilon) ==
    all_lines([k \in 1..Len(AloneContours(img)) |-> simplify(AloneContours(img)[k], epsilon)],
              <<img>>, DEFAULT_OUTPUT_SCALE, DEFAULT_OUTPUT_OFFSET)

\* The state of instance i.
PairState(i) ==
    <<pr_file[i], pr_epsilon[i], pr_image[i], pr_labels[i], pr_visited[i], pr_contours[i],
      pr_simplified[i], pr_lines[i], pr_pc[i]>>

PairStateAfter(i) ==
    <<pr_file'[i], pr_epsilon'[i], pr_image'[i], pr_labels'[i], pr_visited'[i],
      pr_contours'[i], pr_simplified'[i], pr_lines'[i], pr_pc'[i]>>

earlierVars == <<dpVars, vecVars, loadVars, cliVars, decoderVars, filterVars, mcp_layer, traceVars, pairVars>>

EarlierIdle ==
    /\ DpIdle
    /\ UfIdle
    /\ McpIdle
    /\ TrIdle
    /\ PairIdle
    /\ VecIdle
    /\ CliIdle
    /\ PngIdle
    /\ JpgIdle

WalkRest == <<earlierVars, edgeVars, rowVars, grayVars, reuseVars>>

\* The entry of _trace_contour (lines 1271-1277).
InitWalk ==
    /\ EarlierIdle
    /\ EgIdle
    /\ RwIdle
    /\ GrIdle
    /\ RuIdle
    /\ wk_image \in TraceGrids
    /\ wk_start \in TraceCells
    /\ wk_pos = wk_start
    /\ wk_direction = 0
    /\ wk_first = TRUE
    /\ wk_points = <<>>
    /\ wk_pc = "loop"

\* One iteration of the while loop without the test of lines 1307-1309.
WalkIteration_without_cap(i, check_dir, n) ==
    /\ wk_points' = Append(wk_points, wk_pos)
    /\ IF i = 8
       THEN /\ wk_pc' = "no_neighbour"
            /\ UNCHANGED <<wk_pos, wk_direction, wk_first>>
       ELSE /\ wk_pos' = n
            /\ wk_direction' = check_dir
            /\ IF ~wk_first /\ n = wk_start
               THEN /\ wk_pc' = "start"
                    /\ UNCHANGED wk_first
               ELSE /\ wk_first' = FALSE
                    /\ wk_pc' = "loop"

\* One iteration of the while loop (lines 1278-1309); i, check_dir and n are
\* the for loop's result, the direction it stopped at and the pixel there.
WalkIteration(i, check_dir, n) ==
    /\ wk_points' = Append(wk_points, wk_pos)
    /\ IF i = 8
       THEN /\ wk_pc' = "no_neighbour"
            /\ UNCHANGED <<wk_pos, wk_direction, wk_first>>
       ELSE /\ wk_pos' = n
            /\ wk_direction' = check_dir
            /\ IF ~wk_first /\ n = wk_start
               THEN /\ wk_pc' = "start"
                    /\ UNCHANGED wk_first
               ELSE /\ wk_first' = FALSE
                    /\ wk_pc' = IF Len(wk_points) + 1 > wk_image.width * wk_image.height
                                THEN "cap"
                                ELSE "loop"

WalkStep ==
    /\ wk_pc = "loop"
    /\ \E i \in {first_foreground(wk_image, wk_pos[1], wk_pos[2],
                                  (wk_direction + 5) % 8, 0)} :
       \E check_dir \in {(((wk_direction + 5) % 8) + i) % 8} :
           WalkIteration(i, check_dir,
                         <<wk_pos[1] + DIRECTIONS[check_dir + 1][1],
                           wk_pos[2] + DIRECTIONS[check_dir + 1][2]>>)
    /\ UNCHANGED <<wk_image, wk_start>>
    /\ UNCHANGED WalkRest

NextWalk == WalkStep

SpecWalk == InitWalk /\ [][NextWalk]_vars

SpecWalkFair == SpecWalk /\ WF_vars(NextWalk)

WalkLeft == wk_pc \in {"no_neighbour", "start", "cap"}

\* The loop taken by iterations leaves the points trace_walk gives.
WalkAgreesWithTraceWalk ==
    WalkLeft => wk_points = trace_walk(wk_image, wk_start[1], wk_start[2], {}).points

\* The call returns.
WalkTerminates == <>WalkLeft

\* The contour holds no more than width x height points.
WalkWithinCap == Len(wk_points) <= wk_image.width * wk_image.height

\* The contour holds no more than width x height + 1 points: the cap is
\* tested after the append, with >.
WalkWithinCapPlusOne == Len(wk_points) <= wk_image.width * wk_image.height + 1

\* C21 (amended): _trace_contour terminates for every binary grid and every
\* start pixel, leaving its loop on the return to the start pixel, for want
\* of a foreground neighbour or at the cap, and no contour ever holds more
\* than width x height + 1 points.
C21_WalkTerminatesWithinCapPlusOne == WalkTerminates /\ []WalkWithinCapPlusOne

\* A walk the cap has stopped, holding width x height + 1 points.
C21_Witness ==
    /\ wk_pc = "cap"
    /\ Len(wk_points) = wk_image.width * wk_image.height + 1

\* C21: _trace_contour terminates for every binary grid and every start
\* pixel, leaving its loop on the return to the start pixel, for want of a
\* foreground neighbour or at the cap, and no contour ever holds more than
\* width x height points.
C21_WalkTerminatesWithinCap == WalkTerminates /\ []WalkWithinCap

(***************************************************************************)
(* The label array (SpecVectorize)                                         *)
(***************************************************************************)
\* vectorize has run the labeler on the loaded image.
Labelled == binary_image # None /\ labeler.labels # <<>>

ImageCells(img) == (0..(img.width - 1)) \X (0..(img.height - 1))

LabelAt(c) == labeler.labels[c[2]][c[1]]

\* The pixel c carries the label the claim gives it: 0 on the background and
\* on a region of fewer than min_area pixels, else a label of 1..n that
\* marks the pixels of c's maximal 4-connected region and no others.
LabelledAsRegion(img, c) ==
    IF get_pixel(img, c[1], c[2]) = 0 THEN LabelAt(c) = 0
    ELSE IF Cardinality(Component4(img, c)) < min_component_area THEN LabelAt(c) = 0
    ELSE /\ LabelAt(c) \in 1..labeler.current_label
         /\ {d \in ImageCells(img) : LabelAt(d) = LabelAt(c)} = Component4(img, c)

\* C22: after label(min_area) the nonzero labels are exactly 1..n, n the
\* count returned; each label marks one whole maximal 4-connected foreground
\* region of at least min_area pixels; the background and the regions
\* smaller than min_area have label 0.
C22_LabelsAreRegions ==
    Labelled =>
        /\ {LabelAt(c) : c \in ImageCells(binary_image[1])} \ {0} = 1..labeler.current_label
        /\ \A c \in ImageCells(binary_image[1]) : LabelledAsRegion(binary_image[1], c)

\* Two kept regions that touch by a corner only carry different labels,
\* and a smaller region was dropped.
C22_Witness ==
    /\ Labelled
    /\ min_component_area = 2
    /\ labeler.current_label = 2
    /\ \E c, d \in ImageCells(binary_image[1]) :
          /\ Sq(c[1] - d[1]) + Sq(c[2] - d[2]) = 2
          /\ LabelAt(c) = 1
          /\ LabelAt(d) = 2
    /\ \E c \in ImageCells(binary_image[1]) :
          get_pixel(binary_image[1], c[1], c[2]) = 1 /\ LabelAt(c) = 0

(***************************************************************************)
(* SpecEdge: EdgeDetector.detect_edges and detect_edges_simple called on   *)
(* every EdgeW x EdgeH grayscale image over EdgeValues.                    *)
(***************************************************************************)
EdgeW == 3
EdgeH == 3

\* Gray values 40 apart (an edge for threshold 30, none for 50) and the
\* largest.
EdgeValues == {0, 40, 255}

\* The default thresholds of detect_edges_simple and detect_edges.
EdgeThresholds == {30, DEFAULT_EDGE_THRESHOLD}

EdgeGrays ==
    {[width |-> EdgeW, height |-> EdgeH, pixels |-> p] :
        p \in [0..(EdgeH - 1) -> [0..(EdgeW - 1) -> EdgeValues]]}

EdgeRest == <<earlierVars, walkVars, rowVars, grayVars, reuseVars>>

InitEdge ==
    /\ EarlierIdle
    /\ WkIdle
    /\ RwIdle
    /\ GrIdle
    /\ RuIdle
    /\ eg_gray \in EdgeGrays
    /\ eg_threshold \in EdgeThresholds
    /\ eg_mode \in {"edge", "edge_simple"}
    /\ eg_binary = <<>>
    /\ eg_pc = "call"

\* EdgeDetector.detect_edges(gray_image, threshold)
EdgeDetect ==
    /\ eg_pc = "call"
    /\ eg_mode = "edge"
    /\ eg_binary' = detect_edges(eg_gray, eg_threshold)
    /\ eg_pc' = "returned"
    /\ UNCHANGED <<eg_gray, eg_threshold, eg_mode>>
    /\ UNCHANGED EdgeRest

\* EdgeDetector.detect_edges_simple(gray_image, threshold)
EdgeDetectSimple ==
    /\ eg_pc = "call"
    /\ eg_mode = "edge_simple"
    /\ eg_binary' = detect_edges_simple(eg_gray, eg_threshold)
    /\ eg_pc' = "returned"
    /\ UNCHANGED <<eg_gray, eg_threshold, eg_mode>>
    /\ UNCHANGED EdgeRest

NextEdge == EdgeDetect \/ EdgeDetectSimple

SpecEdge == InitEdge /\ [][NextEdge]_vars

\* The gray value at (x, y), 0 outside the grid.
GrayAt(x, y) ==
    IF 0 <= x /\ x < eg_gray.width /\ 0 <= y /\ y < eg_gray.height
    THEN eg_gray.pixels[y][x]
    ELSE 0

Distance(a, b) == IF a < b THEN b - a ELSE a - b

\* max(|g(x,y) - g(x+1,y)|, |g(x,y) - g(x,y+1)|)
DiffAt(x, y) ==
    IF Distance(GrayAt(x, y), GrayAt(x + 1, y)) > Distance(GrayAt(x, y), GrayAt(x, y + 1))
    THEN Distance(GrayAt(x, y), GrayAt(x + 1, y))
    ELSE Distance(GrayAt(x, y), GrayAt(x, y + 1))

EdgeCells == (0..(eg_gray.width - 1)) \X (0..(eg_gray.height - 1))

EdgeForeground(c) == eg_binary.pixels[c[2]][c[1]] = 1

EdgeSimpleReturned == eg_pc = "returned" /\ eg_mode = "edge_simple"

\* The last row and the last column.
LastRowOrColumn(c) == c[1] = eg_gray.width - 1 \/ c[2] = eg_gray.height - 1

\* C23 as stated: in edge_simple mode every pixel of the grid, those of the
\* last row and column too, is foreground exactly when the larger difference
\* to its right and lower neighbour exceeds the threshold, a neighbour
\* outside the grid reading 0.
C23_EveryPixelComparedWithNeighbours ==
    EdgeSimpleReturned =>
        \A c \in EdgeCells : EdgeForeground(c) <=> DiffAt(c[1], c[2]) > eg_threshold

\* C23 (amended): in edge_simple mode the pixels of the last row and the
\* last column are always background; every other pixel is foreground
\* exactly when the larger difference to its right and lower neighbour
\* exceeds the threshold, and no neighbour outside the grid is ever read.
C23_AllButLastRowAndColumnCompared ==
    EdgeSimpleReturned =>
        \A c \in EdgeCells :
            EdgeForeground(c) <=> (~LastRowOrColumn(c) /\ DiffAt(c[1], c[2]) > eg_threshold)

\* A pixel of the last column differs from the 0 outside by more than the
\* threshold and is background, while a pixel before it is foreground
\* because its right neighbour is darker than it.
C23_Witness ==
    /\ EdgeSimpleReturned
    /\ \E c \in EdgeCells :
          /\ LastRowOrColumn(c)
          /\ DiffAt(c[1], c[2]) > eg_threshold
          /\ ~EdgeForeground(c)
    /\ \E c \in EdgeCells :
          /\ EdgeForeground(c)
          /\ GrayAt(c[1], c[2]) < GrayAt(c[1] + 1, c[2])
          /\ GrayAt(c[1], c[2]) = GrayAt(c[1], c[2] + 1)

\* The Sobel sums at (x, y) over the 3 x 3 neighbourhood.
SobelX(x, y) ==
    (GrayAt(x + 1, y - 1) + 2 * GrayAt(x + 1, y) + GrayAt(x + 1, y + 1))
    - (GrayAt(x - 1, y - 1) + 2 * GrayAt(x - 1, y) + GrayAt(x - 1, y + 1))

SobelY(x, y) ==
    (GrayAt(x - 1, y + 1) + 2 * GrayAt(x, y + 1) + GrayAt(x + 1, y + 1))
    - (GrayAt(x - 1, y - 1) + 2 * GrayAt(x, y - 1) + GrayAt(x + 1, y - 1))

\* The integer part of sqrt(gx^2 + gy^2) exceeds t >= 0: it is t + 1 at least.
SobelExceeds(x, y, t) ==
    SobelX(x, y) * SobelX(x, y) + SobelY(x, y) * SobelY(x, y) >= (t + 1) * (t + 1)

EdgeReturned == eg_pc = "returned" /\ eg_mode = "edge"

\* The first and last row and column.
Border(c) ==
    \/ c[1] = 0
    \/ c[2] = 0
    \/ c[1] = eg_gray.width - 1
    \/ c[2] = eg_gray.height - 1

\* C24 as stated: in edge mode every pixel of the grid, those of the border
\* rows and columns too, is foreground exactly when the integer part of
\* sqrt(gx^2 + gy^2) exceeds the threshold, neighbours outside the grid
\* reading 0.
C24_EveryPixelHasSobelMagnitude ==
    EdgeReturned =>
        \A c \in EdgeCells : EdgeForeground(c) <=> SobelExceeds(c[1], c[2], eg_threshold)

\* C24 (amended): in edge mode the pixels of the first and last row and
\* column are always background; every other pixel is foreground exactly
\* when the integer part of sqrt(gx^2 + gy^2) exceeds the threshold, and no
\* neighbour outside the grid is ever read.
C24_InteriorPixelsHaveSobelMagnitude ==
    EdgeReturned =>
        \A c \in EdgeCells :
            EdgeForeground(c) <=> (~Border(c) /\ SobelExceeds(c[1], c[2], eg_threshold))

\* A border pixel has a Sobel magnitude over the threshold and is
\* background, while an interior pixel is foreground.
C24_Witness ==
    /\ EdgeReturned
    /\ \E c \in EdgeCells :
          /\ Border(c)
          /\ SobelExceeds(c[1], c[2], eg_threshold)
          /\ ~EdgeForeground(c)
    /\ \E c \in EdgeCells : ~Border(c) /\ EdgeForeground(c)

(***************************************************************************)
(* The reference Douglas-Peucker recursion (SpecSimplify)                  *)
(***************************************************************************)
\* The square of the distance of p to the chord a -> b, as a fraction: to
\* the nearer end when the foot of the perpendicular falls outside the
\* chord, else the square of the cross product over the square of the
\* chord's length.
ChordDistSq(p, a, b) ==
    LET ux == b[1] - a[1]
        uy == b[2] - a[2]
        vx == p[1] - a[1]
        vy == p[2] - a[2]
        along == ux * vx + uy * vy
        cross == ux * vy - uy * vx
    IN  IF a = b \/ along <= 0 THEN <<vx * vx + vy * vy, 1>>
        ELSE IF along >= ux * ux + uy * uy
        THEN <<(p[1] - b[1]) * (p[1] - b[1]) + (p[2] - b[2]) * (p[2] - b[2]), 1>>
        ELSE <<cross * cross, ux * ux + uy * uy>>

\* The distance of the interior point i of ps to the chord first -> last.
InteriorDistSq(ps, i) == ChordDistSq(ps[i], ps[1], ps[Len(ps)])

\* The first interior point of ps, of 3 points or more, at the largest
\* distance to the chord.
SplitIndex(ps) ==
    CHOOSE i \in 2..(Len(ps) - 1) :
        /\ \A j \in 2..(Len(ps) - 1) : ~FracGT(InteriorDistSq(ps, j), InteriorDistSq(ps, i))
        /\ \A j \in 2..(i - 1) : FracGT(InteriorDistSq(ps, i), InteriorDistSq(ps, j))

\* The recursion of the claim: the two simplified halves, both holding the
\* split point, joined with the split point once.
RECURSIVE ReferenceSimplify(_, _)
ReferenceSimplify(ps, epsilon) ==
    IF Len(ps) < 3 THEN ps
    ELSE IF FracGT(InteriorDistSq(ps, SplitIndex(ps)),
                   <<epsilon[1] * epsilon[1], epsilon[2] * epsilon[2]>>)
    THEN LET left == ReferenceSimplify(SubSeq(ps, 1, SplitIndex(ps)), epsilon)
             right == ReferenceSimplify(SubSeq(ps, SplitIndex(ps), Len(ps)), epsilon)
         IN  SubSeq(left, 1, Len(left) - 1) \o right
    ELSE <<ps[1], ps[Len(ps)]>>

RowW == 3
RowH == 2

RECURSIVE Pow2(_)
Pow2(n) == IF n = 0 THEN 1 ELSE 2 * Pow2(n - 1)

\* The sub-byte branch of _bytes_to_pixels (lines 192-208): the samples of
\* each byte from the high bits down, width pixels at most.
sub_byte_pixels(row_data, bit_depth, color_type, palette, width) ==
    LET per_byte == ((8 - bit_depth) \div bit_depth) + 1
        mask == Pow2(bit_depth) - 1
        idx(k) == (row_data[(k \div per_byte) + 1]
                      \div Pow2(8 - bit_depth - (k % per_byte) * bit_depth))
                  % Pow2(bit_depth)
    IN  [k \in 1..Min(width, Len(row_data) * per_byte) |->
            IF color_type = 3 /\ idx(k - 1) < Len(palette)
            THEN palette[idx(k - 1) + 1]
            ELSE <<(idx(k - 1) * 255) \div mask>>]

\* _bytes_to_pixels (lines 172-222) on a row of whole pixels.
bytes_to_pixels_of(header, palette, row_data, channels) ==
    IF header.bit_depth = 8
    THEN IF header.color_type = 3
         THEN [k \in 1..Len(row_data) |->
                  IF row_data[k] < Len(palette) THEN palette[row_data[k] + 1]
                  ELSE <<0, 0, 0>>]
         ELSE bytes_to_pixels(row_data, channels)
    ELSE IF header.bit_depth < 8
    THEN sub_byte_pixels(row_data, header.bit_depth, header.color_type, palette,
                         header.width)
    ELSE IF header.bit_depth = 16
    THEN [k \in 1..(Len(row_data) \div (channels * 2)) |->
             [c \in 1..channels |-> row_data[(k - 1) * channels * 2 + (c - 1) * 2 + 1]]]
    ELSE <<>>

\* The row loop of _decode_image_data (lines 119-132) for any header:
\* [ok, pixels, pos]; ok is FALSE when raw_data[pos] is past the end
\* (IndexError).
RECURSIVE decode_rows_of(_, _, _, _, _, _, _, _, _)
decode_rows_of(header, palette, raw_data, pos, prev_row, y, scanline_width, bpp, channels) ==
    IF y >= header.height THEN [ok |-> TRUE, pixels |-> <<>>, pos |-> pos]
    ELSE IF pos >= Len(raw_data) THEN [ok |-> FALSE, pixels |-> <<>>, pos |-> pos]
    ELSE LET row_data == unfilter_row(raw_data[pos + 1],
                                      Slice(raw_data, pos + 1, pos + 1 + scanline_width),
                                      prev_row, bpp)
             rest == decode_rows_of(header, palette, raw_data, pos + 1 + scanline_width,
                                    row_data, y + 1, scanline_width, bpp, channels)
         IN  [ok |-> rest.ok,
              pixels |-> <<bytes_to_pixels_of(header, palette, row_data, channels)>>
                         \o rest.pixels,
              pos |-> rest.pos]

\* The scanline width of _decode_image_data (lines 112-113).
scanline_width_of(header) ==
    header.width * Max(1, (header.bit_depth * channels_of(header.color_type) + 7) \div 8)

\* _decode_image_data after zlib.decompress (lines 110-132): [error, pixels,
\* pos], pos the bytes of raw_data the row loop went past.
decode_raw_data(header, palette, raw_data) ==
    LET channels == channels_of(header.color_type)
        bytes_per_pixel == Max(1, (header.bit_depth * channels + 7) \div 8)
        rows == decode_rows_of(header, palette, raw_data, 0,
                               [i \in 1..scanline_width_of(header) |-> 0], 0,
                               scanline_width_of(header), bytes_per_pixel, channels)
    IN  [error |-> IF rows.ok THEN "none" ELSE "IndexError",
         pixels |-> rows.pixels,
         pos |-> rows.pos]

\* The colour types with the bit depths the PNG format allows them.
RowFormats ==
    {<<0, 1>>, <<0, 2>>, <<0, 4>>, <<0, 8>>, <<0, 16>>,
     <<2, 8>>, <<2, 16>>,
     <<3, 1>>, <<3, 2>>, <<3, 4>>, <<3, 8>>,
     <<4, 8>>, <<4, 16>>,
     <<6, 8>>, <<6, 16>>}

RowHeaders ==
    {[width |-> w, height |-> h, bit_depth |-> f[2], color_type |-> f[1]] :
        w \in 1..RowW, h \in 1..RowH, f \in RowFormats}

\* The seeds of the bytes of the files.
RowSeeds == {0, 90, 165, 255}

\* The bytes of a writer's scanline: 1 + ceil(width * bits per pixel / 8)
\* bytes, the filter type 0 and the packed samples.
TrueScanlineBytes(header) ==
    (header.width * header.bit_depth * channels_of(header.color_type) + 7) \div 8

\* The k-th byte (from 0) of row y (from 0) of the file of a seed.
RowByte(seed, y, k) == (seed + 37 * y + 101 * k) % 256

RowRawData(header, seed) ==
    [i \in 1..(header.height * (1 + TrueScanlineBytes(header))) |->
        IF (i - 1) % (1 + TrueScanlineBytes(header)) = 0 THEN 0
        ELSE RowByte(seed, (i - 1) \div (1 + TrueScanlineBytes(header)),
                     ((i - 1) % (1 + TrueScanlineBytes(header))) - 1)]

\* A palette of 256 colours, each different.
FullPalette == [i \in 1..256 |-> <<i - 1, 256 - i, ((i - 1) * 7) % 256>>]

InitRows ==
    /\ EarlierIdle
    /\ WkIdle
    /\ EgIdle
    /\ GrIdle
    /\ RuIdle
    /\ rw_header \in RowHeaders
    /\ rw_palette = IF rw_header.color_type = 3 THEN FullPalette ELSE <<>>
    /\ \E seed \in RowSeeds : rw_raw = RowRawData(rw_header, seed)
    /\ rw_result = <<>>
    /\ rw_pc = "call"

\* self._decode_image_data(idat_data), from raw_data on.
RowsDecode ==
    /\ rw_pc = "call"
    /\ rw_result' = decode_raw_data(rw_header, rw_palette, rw_raw)
    /\ rw_pc' = "returned"
    /\ UNCHANGED <<rw_header, rw_palette, rw_raw>>
    /\ UNCHANGED <<earlierVars, walkVars, edgeVars, grayVars, reuseVars>>

NextRows == RowsDecode

SpecRows == InitRows /\ [][NextRows]_vars

\* Sample n (from 0) of the scanline of row y (from 0): the sample's bits,
\* the high bits of a byte first; of a 16-bit sample the high byte.
SampleOf(y, n) ==
    LET line == SubSeq(rw_raw, y * (1 + TrueScanlineBytes(rw_header)) + 2,
                       (y + 1) * (1 + TrueScanlineBytes(rw_header)))
        depth == rw_header.bit_depth
    IN  IF depth = 16 THEN line[2 * n + 1]
        ELSE IF depth = 8 THEN line[n + 1]
        ELSE (line[((n * depth) \div 8) + 1] \div Pow2(8 - depth - ((n * depth) % 8)))
             % Pow2(depth)

\* The pixel x (from 0) of row y the samples give: the palette entry of an
\* indexed sample, a sample below 8 bits scaled to 0..255, else the tuple
\* of the pixel's samples.
PixelOf(y, x) ==
    IF rw_header.color_type = 3 THEN rw_palette[SampleOf(y, x) + 1]
    ELSE IF rw_header.bit_depth < 8
    THEN <<(SampleOf(y, x) * 255) \div (Pow2(rw_header.bit_depth) - 1)>>
    ELSE [c \in 1..channels_of(rw_header.color_type) |->
             SampleOf(y, x * channels_of(rw_header.color_type) + c - 1)]

\* C26: for every supported colour type and bit depth the decoder consumes
\* exactly 1 + ceil(width * bits per pixel / 8) inflated bytes per row and
\* produces exactly height rows of exactly width pixels, the samples below
\* 8 bits taken from the high bits down and the 16-bit samples reduced to
\* their high byte.
C26_RowsOfWidthPixels ==
    rw_pc = "returned" =>
        /\ rw_result.error = "none"
        /\ rw_result.pos = rw_header.height * (1 + TrueScanlineBytes(rw_header))
        /\ Len(rw_result.pixels) = rw_header.height
        /\ \A y \in 1..rw_header.height :
              /\ Len(rw_result.pixels[y]) = rw_header.width
              /\ \A x \in 1..rw_header.width :
                    rw_result.pixels[y][x] = PixelOf(y - 1, x - 1)

\* The rows, pixels and bytes consumed are the claim's for the bit depths 8
\* and 16.
RowsWholeBytes ==
    (/\ rw_pc = "returned"
     /\ rw_header.bit_depth >= 8)
    => C26_RowsOfWidthPixels

(***************************************************************************)
(* SpecGray: load_image_native on a PNG or JPEG file, given by the pixel   *)
(* rows its decoder holds, and on a PNM file, given by its header and      *)
(* samples; then BinaryImage.from_grayscale_array on the grid returned.    *)
(***************************************************************************)
GrayW == 2
GrayH == 1

\* int(0.299 * r + 0.587 * g + 0.114 * b) for samples in 0..255: the float
\* sum is exact or just below the exact sum, so where the exact sum is a
\* whole number the result is that number or the one below it.
luma_values(r, g, b) ==
    LET thousandths == 299 * r + 587 * g + 114 * b
    IN  IF thousandths % 1000 = 0 /\ thousandths > 0
        THEN {(thousandths \div 1000) - 1, thousandths \div 1000}
        ELSE {Trunc(thousandths, 1000)}

\* PNGDecoder.to_grayscale_array (lines 224-239): the values pixel may give.
png_gray_values(pixel) ==
    IF Len(pixel) = 1 \/ Len(pixel) = 2 THEN {pixel[1]}
    ELSE luma_values(pixel[1], pixel[2], pixel[3])

\* JPEGDecoder.to_grayscale_array (lines 657-666).
jpeg_gray_values(pixel) == luma_values(pixel[1], pixel[2], pixel[3])

\* The PNM branch of load_image_native (lines 724-749): the values the
\* pixel n (from 0) may get, max_val not 0.
pnm_gray_values(f, n) ==
    IF f.magic = "P5" \/ f.magic = "P2"
    THEN {(f.data[n + 1] * 255) \div f.max_val}
    ELSE {(v * 255) \div f.max_val :
             v \in luma_values(f.data[3 * n + 1], f.data[3 * n + 2], f.data[3 * n + 3])}

\* The values load_image_native may put at row y, column x (from 1).
gray_values(f, y, x) ==
    IF f.kind = "png" THEN png_gray_values(f.pixels[y][x])
    ELSE IF f.kind = "jpeg" THEN jpeg_gray_values(f.pixels[y][x])
    ELSE pnm_gray_values(f, (y - 1) * f.width + (x - 1))

\* load_image_native (lines 698-752): the results it may return,
\* [error, width, height, pixels].
load_image_native(f) ==
    IF f.kind = "pnm" /\ f.max_val = 0 /\ f.width * f.height > 0
    THEN {[error |-> "ZeroDivisionError", width |-> 0, height |-> 0, pixels |-> <<>>]}
    ELSE {[error |-> "none", width |-> f.width, height |-> f.height,
           pixels |-> [y \in 1..f.height |-> [x \in 1..f.width |-> g[<<y, x>>]]]] :
             g \in {h \in [(1..f.height) \X (1..f.width) ->
                             UNION {gray_values(f, c[1], c[2]) :
                                       c \in (1..f.height) \X (1..f.width)}] :
                       \A c \in (1..f.height) \X (1..f.width) :
                           h[c] \in gray_values(f, c[1], c[2])}}

\* The list of rows load_image_native returns, as the rows
\* from_grayscale_array indexes.
GridOfRows(r) ==
    [width |-> r.width, height |-> r.height,
     pixels |-> [y \in 0..(r.height - 1) |-> [x \in 0..(r.width - 1) |->
                    r.pixels[y + 1][x + 1]]]]

\* The sample values of the files: bytes, and for the ASCII formats also a
\* number below 0 and one above 255.
GrayBytes == {0, 100, 200, 255}
GrayNumbers == GrayBytes \cup {-1, 300}
GrayMaxVals == {0, 1, 100, 255, 65535}

\* The pixel tuples a PNG decoder holds: 1, 2, 3 or 4 channels.
PngTuples ==
    UNION {[1..n -> {0, 255}] : n \in 1..4} \cup {<<100, 200, 255>>, <<200, 100, 0>>}

JpegTuples == [1..3 -> {0, 100, 255}]

\* The PNM files of one format and size, its samples drawn from a set.
PnmFiles(m, w, h, count, samples) ==
    {[kind |-> "pnm", magic |-> m, width |-> w, height |-> h,
      max_val |-> mv, data |-> d] :
        mv \in GrayMaxVals, d \in [1..count -> samples]}

GrayFilesOfSize(w, h) ==
    {[kind |-> "png", width |-> w, height |-> h, pixels |-> px] :
        px \in [1..h -> [1..w -> PngTuples]]}
    \cup {[kind |-> "jpeg", width |-> w, height |-> h, pixels |-> px] :
        px \in [1..h -> [1..w -> {t \in JpegTuples : t[1] = t[3]}]]}
    \cup PnmFiles("P5", w, h, w * h, GrayBytes)
    \cup PnmFiles("P2", w, h, w * h, GrayNumbers)
    \cup PnmFiles("P6", w, h, 3 * w * h, {0, 255})
    \cup PnmFiles("P3", w, h, 3 * w * h, {0, 255})

GrayFiles == UNION {GrayFilesOfSize(w, h) : w \in 1..GrayW, h \in 1..GrayH}

InitGray ==
    /\ EarlierIdle
    /\ WkIdle
    /\ EgIdle
    /\ RwIdle
    /\ RuIdle
    /\ gr_file \in GrayFiles
    /\ gr_result = <<>>
    /\ gr_binary = <<>>
    /\ gr_pc = "call"

\* width, height, gray_pixels = load_image_native(filepath), then
\* BinaryImage.from_grayscale_array(gray_pixels, threshold) if it returned.
GrayLoad ==
    /\ gr_pc = "call"
    /\ \E r \in load_image_native(gr_file) :
          /\ gr_result' = r
          /\ gr_binary' = IF r.error = "none"
                          THEN <<from_grayscale_array(GridOfRows(r), DEFAULT_THRESHOLD)>>
                          ELSE <<>>
    /\ gr_pc' = "returned"
    /\ UNCHANGED gr_file
    /\ UNCHANGED <<earlierVars, walkVars, edgeVars, rowVars, reuseVars>>

NextGray == GrayLoad

SpecGray == InitGray /\ [][NextGray]_vars

GrayReturned == gr_pc = "returned" /\ gr_result.error = "none"

\* Every value of the grid returned is in 0..255.
GrayInRange ==
    \A y \in 1..gr_result.height : \A x \in 1..gr_result.width :
        gr_result.pixels[y][x] \in 0..255

\* Every value of the BinaryImage built from the grid is 0 or 1.
BinaryInRange ==
    \A y \in 0..(gr_result.height - 1) : \A x \in 0..(gr_result.width - 1) :
        gr_binary[1].pixels[y][x] \in {0, 1}

\* C27: every value of the grayscale grid load_image_native returns, for a
\* PNG, a JPEG and a P2, P3, P5 or P6 file, whatever the header's max value
\* and the samples, is an integer of 0..255, and every value of a
\* BinaryImage built from it is 0 or 1.
C27_GrayValuesAreBytes == GrayReturned => (GrayInRange /\ BinaryInRange)

\* The grids of PNG and JPEG files are in range, and those of PNM files
\* whose samples do not exceed a max value of 1..255; binary values always.
GrayInRangeOfValidFiles ==
    GrayReturned =>
        /\ BinaryInRange
        /\ (\/ gr_file.kind # "pnm"
            \/ \A i \in 1..Len(gr_file.data) : gr_file.data[i] \in 0..gr_file.max_val)
           => GrayInRange

(***************************************************************************)
(* SpecReuse: one ImageVectorizer whose caller calls load_image,           *)
(* set_output_bounds, vectorize and generate_mcp_sequence in any order and *)
(* any number of times, while the file at the path is replaced at will.    *)
(***************************************************************************)
\* The grid vectorize leaves in self.binary_image, erasing the regions its
\* labeler drops.
image_after_vectorize_erasing(img, min_area, min_length) ==
    [img EXCEPT !.pixels = [y \in 0..(img.height - 1) |->
                              [x \in 0..(img.width - 1) |->
                                 IF label(img, min_area).labels[y][x] # 0
                                 THEN 1 ELSE 0]]]

\* The grid vectorize leaves in self.binary_image: the labeler and the tracer
\* hold it as self.image, read it through get_pixel and write their own
\* labels and visited only (lines 1184-1196, 1258-1311).
image_after_vectorize(img, min_area, min_length) == img

\* The files at the path: PNG files of a black rectangle on white, a PNG file
\* that fails to decode, and a file of an unsupported extension.
ReuseFiles ==
    {[ext |-> "png", ok |-> TRUE, gray |-> <<GrayOf(bw, bh, 0)>>] :
        bw \in {1, 3}, bh \in {1, 2}}
    \cup {[ext |-> "png", ok |-> FALSE, gray |-> <<>>],
          [ext |-> "gif", ok |-> TRUE, gray |-> <<GrayOf(2, 2, 0)>>]}

InitReuse ==
    /\ DpIdle
    /\ UfIdle
    /\ McpIdle
    /\ TrIdle
    /\ PairIdle
    /\ PngIdle
    /\ JpgIdle
    /\ WkIdle
    /\ EgIdle
    /\ RwIdle
    /\ GrIdle
    /\ RuIdle
    /\ file \in ReuseFiles
    /\ pil_installed = FALSE
    /\ options = <<>>
    /\ bg = <<>>
    /\ cli_pc = "idle"
    /\ cli_result = [none |-> TRUE]
    /\ gray_image = None
    /\ decoded_by = "none"
    /\ printed = <<>>
    /\ binary_image = None
    /\ mode \in {"binary", "edge_simple"}
    /\ threshold = DEFAULT_THRESHOLD
    /\ edge_threshold = DEFAULT_EDGE_THRESHOLD
    /\ min_component_area \in {1, 4}
    /\ min_contour_length = 3
    /\ simplify_epsilon = DEFAULT_SIMPLIFY_EPSILON
    /\ output_scale = DEFAULT_OUTPUT_SCALE
    /\ output_offset = DEFAULT_OUTPUT_OFFSET
    /\ contours = <<>>
    /\ simplified_contours = <<>>
    /\ lines = <<>>
    /\ labeler = NoLabeler
    /\ calls = {}
    /\ raised = "none"
    /\ mcp_result = [none |-> TRUE]

ReuseRest ==
    <<dpVars, decoderVars, filterVars, mcp_layer, traceVars, pairVars, walkVars,
      edgeVars, rowVars, grayVars, pil_installed, options, bg, cli_pc, cli_result>>

\* Another file is written at the path.
RuReplaceFile ==
    /\ \E f \in ReuseFiles \ {file} : file' = f
    /\ UNCHANGED <<vecVars, loadVars, reuseVars, ReuseRest>>

\* vectorizer.load_image(path)
RuLoadImage ==
    /\ load_image
    /\ calls' = calls \cup {"load_image"}
    /\ raised' = "none"
    /\ ru_last' = "load_image"
    /\ ru_tick' = ~ru_tick
    /\ ru_returned' = <<printed' = <<>>>>
    /\ ru_loaded' = (ru_loaded \/ printed' = <<>>)
    /\ ru_image' = IF printed' = <<>> THEN binary_image' ELSE ru_image
    /\ UNCHANGED <<configVars, outputVars, resultVars, mcp_result, file, ru_produced,
                   ReuseRest>>

\* vectorizer.set_output_bounds(x, y, width, height)
RuSetOutputBounds ==
    /\ \E b \in Backgrounds : set_output_bounds(b.x, b.y, b.width, b.height)
    /\ calls' = calls \cup {"set_output_bounds"}
    /\ ru_last' = "set_output_bounds"
    /\ ru_tick' = ~ru_tick
    /\ UNCHANGED <<binary_image, configVars, resultVars, mcp_result, loadVars, file,
                   ru_returned, ru_loaded, ru_produced, ru_image, ReuseRest>>

\* vectorizer.vectorize()
RuVectorize ==
    /\ vectorize
    /\ binary_image' = IF binary_image = None THEN None
                       ELSE <<image_after_vectorize(binary_image[1],
                                  min_component_area, min_contour_length)>>
    /\ calls' = calls \cup {"vectorize"}
    /\ ru_last' = "vectorize"
    /\ ru_tick' = ~ru_tick
    /\ ru_produced' = (ru_produced \/ (raised' = "none" /\ lines' # <<>>))
    /\ UNCHANGED <<configVars, outputVars, mcp_result, loadVars, file, ru_returned,
                   ru_loaded, ru_image, ReuseRest>>

\* vectorizer.generate_mcp_sequence()
RuGenerate ==
    /\ mcp_result' = generate_mcp_sequence(lines, "TRACE")
    /\ calls' = calls \cup {"generate_mcp_sequence"}
    /\ raised' = "none"
    /\ ru_last' = "generate_mcp_sequence"
    /\ ru_tick' = ~ru_tick
    /\ UNCHANGED <<binary_image, configVars, outputVars, resultVars, loadVars, file,
                   ru_returned, ru_loaded, ru_produced, ru_image, ReuseRest>>

NextReuse ==
    \/ RuReplaceFile
    \/ RuLoadImage
    \/ RuSetOutputBounds
    \/ RuVectorize
    \/ RuGenerate

SpecReuse == InitReuse /\ [][NextReuse]_vars

\* The step is a call of the method.
Called(method) == ru_tick' # ru_tick /\ ru_last' = method

\* The foreground pixels of the image held.
HeldForeground ==
    {c \in (0..(binary_image[1].width - 1)) \X (0..(binary_image[1].height - 1)) :
        binary_image[1].pixels[c[2]][c[1]] = 1}

C29_OutOfOrderCallsFail ==
    [][/\ (~ru_loaded /\ (Called("vectorize") \/ Called("set_output_bounds")))
            => /\ raised' # "none"
               /\ UNCHANGED <<contours, lines, output_scale, output_offset>>
       /\ (~ru_produced /\ Called("generate_mcp_sequence"))
            => IsError(mcp_result')]_vars

\* After a load_image that failed, vectorize and set_output_bounds have
\* raised and generate_mcp_sequence has returned its error object.
C29_Witness ==
    /\ ~ru_loaded
    /\ ru_returned = <<FALSE>>
    /\ {"vectorize", "set_output_bounds"} \subseteq calls
    /\ ru_last = "generate_mcp_sequence"
    /\ IsError(mcp_result)
    /\ output_offset = DEFAULT_OUTPUT_OFFSET
    /\ lines = <<>>

\* The last load_image returned False on a vectorizer that holds an image.
FailedLoadOnReuse ==
    /\ ru_last = "load_image"
    /\ ru_returned = <<FALSE>>
    /\ ru_loaded

\* C30: a load_image that fails returns False and leaves binary_image as it
\* was, so that on a reused ImageVectorizer the vectorize() after a failed
\* load runs on the image loaded before and does not raise 'No image loaded'.
C30_FailedLoadKeepsTheImage ==
    [][/\ (Called("load_image") /\ ru_returned' = <<FALSE>>)
            => binary_image' = binary_image
       /\ (FailedLoadOnReuse /\ Called("vectorize"))
            => /\ raised' # "ValueError: No image loaded"
               /\ contours' = trace_all_contours(ru_image[1], min_contour_length)]_vars

\* vectorize() has returned the lines of the image loaded before the load
\* that failed.
C30_Witness ==
    /\ ru_last = "vectorize"
    /\ ru_returned = <<FALSE>>
    /\ ru_loaded
    /\ printed # <<>>
    /\ raised = "none"
    /\ lines # <<>>
    /\ binary_image = ru_image
====
